---- MODULE Spec2Model ----
(***************************************************************************)
(* Model of src/xml_analyzer_gui.py: the EAXMLAnalyzer extraction engine   *)
(* (reset, analyze_file, the three parse strategies, the six extractors    *)
(* and _calculate_stats), and the part of the EAAnalyzerGUI window that    *)
(* runs an analysis (open_file, start_analysis, the analyze_xml worker and *)
(* the callbacks it queues on the main loop).                              *)
(*                                                                         *)
(* An XML document is a tree of nodes; a node is a record                  *)
(*   [tag, pfx, attrib, text, kids]                                        *)
(* where attrib is a set of <<name, value>> pairs, pfx is an undeclared    *)
(* namespace prefix written before the tag ("" when there is none) and     *)
(* kids is the sequence of child nodes.  A node is identified by its path  *)
(* (the sequence of child indexes from the root), which stands for the     *)
(* identity of the ElementTree object.                                     *)
(*                                                                         *)
(* A Python dict is a sequence of [k, v] entries in insertion order.       *)
(***************************************************************************)
EXTENDS Naturals, Sequences, FiniteSets, TLC

VARIABLES
    self,      \* the EAXMLAnalyzer instance (the fields set by reset)
    pc,        \* position of analyze_file
    file,      \* the file at xml_file_path
    content,   \* local `content` of analyze_file (decoded text)
    root,      \* local `root` of analyze_file (parsed tree)
    layout,    \* memory layout of the parsed tree (decides id(node))
    e,         \* the ParseError bound by `except ET.ParseError as e`
    calls,     \* the steps analyze_file has invoked so far, in order
    result,    \* what analyze_file returned or raised
    ncalls,    \* number of analyze_file calls started so far
    inst,      \* which EAXMLAnalyzer instance `self` is, and the calls made on it
    prev,      \* the caller's record of the call before the current one
    gui,       \* the EAAnalyzerGUI instance, its worker thread and Tk's queue
    unit,      \* the last direct call of one helper method: name, arguments, outcome
    heap       \* the objects the fields of the instance and the returned dictionaries refer to

vars == <<self, pc, file, content, root, layout, e, calls, result, ncalls, inst, prev, gui,
          unit, heap>>

----------------------------------------------------------------------------
(* Bounds *)

\* longest sequence of child nodes under the document root
MaxNodes == 2

\* number of analyze_file calls, and of analyzers constructed, in one
\* behaviour of SpecSeq; number of analyses started in one of SpecGui
MaxCalls == 2

\* number of memory layouts a parsed tree can get
MaxLayout == 2

\* longest string handed to a string helper called directly
MaxText == 5

----------------------------------------------------------------------------
(* Python values *)

None == "None"

\* truth value of an attribute value or None in a Python condition
Truthy(v) == v # None /\ v # ""

\* Python's `a or b` on such values
Or(a, b) == IF Truthy(a) THEN a ELSE b

\* Element.get(name): the attribute value, None when absent
get(n, a) ==
    IF \E p \in n.attrib : p[1] = a
    THEN (CHOOSE p \in n.attrib : p[1] = a)[2]
    ELSE None

\* Element.get(name, default)
get_default(n, a, d) ==
    IF \E p \in n.attrib : p[1] = a
    THEN (CHOOSE p \in n.attrib : p[1] = a)[2]
    ELSE d

----------------------------------------------------------------------------
(* Python dict, in insertion order *)

Keys(d) == {d[i].k : i \in DOMAIN d}

KeySeq(d) == [i \in DOMAIN d |-> d[i].k]

Has(d, key) == \E i \in DOMAIN d : d[i].k = key

Lookup(d, key) == d[CHOOSE i \in DOMAIN d : d[i].k = key].v

\* d[key] = val : replaces the value of an existing key in place, else appends
Store(d, key, val) ==
    IF Has(d, key)
    THEN [i \in DOMAIN d |-> IF d[i].k = key THEN [k |-> key, v |-> val] ELSE d[i]]
    ELSE Append(d, [k |-> key, v |-> val])

\* Counter[key] += 1
Incr(c, key) ==
    IF Has(c, key) THEN Store(c, key, Lookup(c, key) + 1) ELSE Store(c, key, 1)

\* number of times x occurs in the list s
Count(s, x) == Cardinality({i \in DOMAIN s : s[i] = x})

----------------------------------------------------------------------------
(* Document trees *)

Node(tag, attrib, text, kids) ==
    [tag |-> tag, pfx |-> "", attrib |-> attrib, text |-> text, kids |-> kids]

Prefixed(pfx, n) == [n EXCEPT !.pfx = pfx]

ascii_uppercase == "ABCDEFGHIJKLMNOPQRSTUVWXYZ"
ascii_lowercase == "abcdefghijklmnopqrstuvwxyz"

\* str.lower() of one character
lower_char(c) ==
    IF \E i \in 1..Len(ascii_uppercase) : SubSeq(ascii_uppercase, i, i) = c
    THEN LET i == CHOOSE i \in 1..Len(ascii_uppercase) : SubSeq(ascii_uppercase, i, i) = c
         IN  SubSeq(ascii_lowercase, i, i)
    ELSE c

\* elem.tag.split('}')[-1].lower(): the trees hold the local names, so only
\* the lowering is left
RECURSIVE Lower(_)
Lower(tag) ==
    IF Len(tag) = 0 THEN tag
    ELSE lower_char(SubSeq(tag, 1, 1)) \o Lower(SubSeq(tag, 2, Len(tag)))

\* The nodes below a node in document order, each with its path: what
\* elem.iter() yields after elem itself.
RECURSIVE Below(_, _)
Below(n, path) ==
    LET RECURSIVE From(_)
        From(i) ==
            IF i > Len(n.kids) THEN <<>>
            ELSE <<[node |-> n.kids[i], path |-> Append(path, i)]>>
                 \o Below(n.kids[i], Append(path, i)) \o From(i + 1)
    IN From(1)

\* root.iter(): the root itself, then every node below it
Iter(n) == <<[node |-> n, path |-> <<>>]>> \o Below(n, <<>>)

RECURSIVE NodeAt(_, _)
NodeAt(tree, p) == IF p = <<>> THEN tree ELSE NodeAt(tree.kids[Head(p)], Tail(p))

Front(s) == SubSeq(s, 1, Len(s) - 1)

\* An Element or None (the result of Element.find) is a sequence of at most
\* one entry; NoElement is None.
NoElement == <<>>

\* truth value of an Element in a Python condition: it has child nodes
\* (Element.__bool__ is len(children) != 0); None is false
ElementTruthy(x) == x # NoElement /\ Len(x[1].node.kids) > 0

\* Python's `a or b` on the results of Element.find
ElementOr(a, b) == IF ElementTruthy(a) THEN a ELSE b

----------------------------------------------------------------------------
(* ElementPath *)

\* One step of a path: `//tag` (some node below) or `/tag` (a child), the tag
\* possibly written with a namespace prefix.
Desc(tag) == [axis |-> "//", pfx |-> "", tag |-> tag]
Child(tag) == [axis |-> "/", pfx |-> "", tag |-> tag]
PDesc(pfx, tag) == [axis |-> "//", pfx |-> pfx, tag |-> tag]

\* ElementPath raises SyntaxError("prefix ... not found in prefix map") for a
\* prefixed step when no namespaces map is passed
PathRaises(steps) == \E i \in DOMAIN steps : steps[i].pfx # ""

\* the node at path p, below the context node at ctx, is selected by steps
RECURSIVE Matches(_, _, _, _)
Matches(tree, ctx, p, steps) ==
    LET k == Len(steps)
    IN  /\ Len(p) > Len(ctx)
        /\ NodeAt(tree, p).tag = steps[k].tag
        /\ \/ k = 1
           \/ /\ k > 1
              /\ steps[k].axis = "/"
              /\ Matches(tree, ctx, Front(p), Front(steps))
           \/ /\ k > 1
              /\ steps[k].axis = "//"
              /\ \E j \in (Len(ctx) + 1)..(Len(p) - 1) :
                    Matches(tree, ctx, SubSeq(p, 1, j), Front(steps))

\* elem.findall('.' + steps), for paths that do not raise
findall(tree, elem, steps) ==
    SelectSeq(Below(elem.node, elem.path),
              LAMBDA x : Matches(tree, elem.path, x.path, steps))

\* elem.find('.' + steps): the first match or None
find(tree, elem, steps) ==
    LET found == findall(tree, elem, steps)
    IN  IF found = <<>> THEN NoElement ELSE <<Head(found)>>

----------------------------------------------------------------------------
(* Object identity *)

\* position of the node at path p in document order, counting the root as 0
IndexOf(tree, p) ==
    LET it == Iter(tree)
    IN  (CHOOSE i \in DOMAIN it : it[i].path = p) - 1

\* str(id(node)) of nodes that are not alive together: an address is used
\* again, for more or fewer nodes as the layout has it
str_id_reused(tree, lay, p) == "@" \o ToString(lay + (IndexOf(tree, p) % lay))

\* str(id(node)); the nodes of one parsed tree are all alive together, so
\* their addresses differ; the addresses themselves depend on the layout
str_id(tree, lay, p) == "@" \o ToString(IndexOf(tree, p) + lay)

----------------------------------------------------------------------------
(* The documents analysed *)

Package(attrib) == Node("Package", attrib, None, <<>>)

\* the nodes that can stand directly under the document root
Items ==
    { \* packages: a root package, a child holding a class, a cycle, a
      \* self-parent, no id
      Package({<<"Id", "P1">>, <<"Name", "Core">>}),
      Node("Package", {<<"Id", "P2">>, <<"Name", "Sub">>, <<"ParentID", "P1">>,
                       <<"Author", "ann">>}, None,
           << Node("Class", {<<"Id", "E4">>, <<"package", "P2">>}, None, <<>>) >>),
      Package({<<"Id", "P1">>, <<"name", "Top">>, <<"parent", "P2">>, <<"Version", "1.0">>}),
      Package({<<"id", "P3">>, <<"owner", "P3">>}),
      Package({<<"Name", "Anon">>, <<"ParentID", "P9">>}),
      \* elements: scenario A's element, a dangling package id, no package
      \* id, no id, and one recognised by its attributes only
      Node("Element", {<<"Id", "E1">>, <<"Name", "Order">>, <<"Type", "Class">>,
                       <<"PackageID", "P1">>}, None, <<>>),
      Node("Class", {<<"Id", "E2">>, <<"package", "P9">>, <<"Author", "bob">>}, None, <<>>),
      Node("Class", {<<"Id", "E1">>, <<"Name", "Late">>}, None, <<>>),
      Node("Component", {<<"name", "c">>, <<"owner", "P2">>}, None, <<>>),
      Node("Thing", {<<"Id", "E3">>, <<"Name", "n">>, <<"Type", "Actor">>,
                     <<"PackageID", "P2">>}, None, <<>>),
      \* connectors: scenario B's connector, one in a Connectors container, no id
      Node("Connector", {<<"Id", "C1">>, <<"Type", "Association">>,
                         <<"SourceID", "E1">>, <<"TargetID", "E2">>}, None, <<>>),
      Node("Connectors", {}, None,
           << Node("Connector", {<<"Id", "C2">>, <<"source", "E9">>, <<"target", "E1">>},
                   None, <<>>) >>),
      Node("Connector", {<<"Type", "Dependency">>, <<"SourceID", "E1">>}, None, <<>>),
      \* diagrams: scenario C's two diagrams, one in a Diagrams container
      Node("Diagram", {<<"Id", "D1">>, <<"Name", "Overview">>, <<"Type", "Logical">>}, None,
           << Node("Image", {}, "QUJDRA==", <<>>) >>),
      Node("Diagram", {<<"Id", "D2">>}, None, <<>>),
      Node("Diagrams", {}, None,
           << Node("Diagram", {<<"Id", "D3">>, <<"Author", "cy">>}, None, <<>>) >>),
      \* tagged values and a model node
      Node("TaggedValue", {<<"ElementID", "E1">>, <<"Name", "k">>, <<"Value", "v">>},
           None, <<>>),
      Node("Model", {<<"name", "Shop">>, <<"Id", "M1">>}, None, <<>>),
      \* undeclared namespace prefixes: one the cleaning strips, one it keeps
      Prefixed("uml", Package({<<"Id", "P4">>, <<"Name", "Uml">>})),
      Prefixed("ea", Package({<<"Id", "P5">>})) }

\* the sequences of at most n items
RECURSIVE SeqsUpTo(_, _)
SeqsUpTo(S, n) ==
    IF n = 0 THEN {<<>>}
    ELSE LET shorter == SeqsUpTo(S, n - 1)
         IN  shorter \cup {Append(s, x) : s \in {t \in shorter : Len(t) = n - 1}, x \in S}

Document(items) == Node("XMI", {}, None, items)

Trees == {Document(items) : items \in SeqsUpTo(Items, MaxNodes)}

\* A file is its document and its defect: "none"; "bytes", bytes the XML
\* parser rejects although a text codec decodes them; or "syntax", markup
\* that is not well formed.
File(tree, defect) == [tree |-> tree, defect |-> defect]

Files ==
    {File(t, "none") : t \in Trees}
    \cup {File(t, d) : t \in {u \in Trees : Len(u.kids) <= 1}, d \in {"bytes", "syntax"}}

\* some node of the tree is written with an undeclared namespace prefix
HasPrefix(tree) == \E i \in DOMAIN Iter(tree) : Iter(tree)[i].node.pfx # ""

----------------------------------------------------------------------------
(* EAXMLAnalyzer.reset *)

\* reset() that leaves the statistics of the instance as they are
reset_keeping_stats(old) ==
    [ packages |-> <<>>, elements |-> <<>>, diagrams |-> <<>>, connectors |-> <<>>,
      tagged_values |-> <<>>, stereotypes |-> <<>>,
      model_info |-> <<>>, authors |-> {}, versions |-> {},
      stats |-> IF DOMAIN old = {}
                THEN [ total_packages |-> 0, total_elements |-> 0,
                       total_diagrams |-> 0, total_connectors |-> 0,
                       element_types |-> <<>>, diagram_types |-> <<>>,
                       connector_types |-> <<>> ]
                ELSE old.stats ]

\* the instance after reset(): every collection is a new empty object
reset(old) ==
    [ packages |-> <<>>, elements |-> <<>>, diagrams |-> <<>>, connectors |-> <<>>,
      tagged_values |-> <<>>, stereotypes |-> <<>>,
      model_info |-> <<>>, authors |-> {}, versions |-> {},
      stats |-> [ total_packages |-> 0, total_elements |-> 0,
                  total_diagrams |-> 0, total_connectors |-> 0,
                  element_types |-> <<>>, diagram_types |-> <<>>,
                  connector_types |-> <<>> ] ]

\* The objects behind the fields.  A heap is the objects allocated so far
\* (the address of an object is its place in `objects`), the address each
\* field of the instance is bound to, and the dictionaries analyze_file has
\* returned: the address each of their keys is bound to and, to compare
\* with later, the model as it was at the return.  The stats dictionary
\* counts as one object with its three Counters, which reset() makes with it.
FieldSeq ==
    << "packages", "elements", "diagrams", "connectors", "tagged_values", "stereotypes",
       "model_info", "authors", "versions", "stats" >>

FieldAt(name) == CHOOSE i \in DOMAIN FieldSeq : FieldSeq[i] = name

\* a reset() that empties the objects the fields are bound to (clear())
\* where lines 18-39 bind new ones
reset_in_place(h) ==
    IF h.self = <<>>
    THEN [h EXCEPT !.objects = @ \o [i \in DOMAIN FieldSeq |-> reset(<<>>)[FieldSeq[i]]],
                   !.self = [name \in {FieldSeq[i] : i \in DOMAIN FieldSeq} |->
                                 Len(h.objects) + FieldAt(name)]]
    ELSE [h EXCEPT !.objects =
             [a \in DOMAIN h.objects |->
                 IF \E i \in DOMAIN FieldSeq : h.self[FieldSeq[i]] = a
                 THEN reset(<<>>)[FieldSeq[CHOOSE i \in DOMAIN FieldSeq :
                                               h.self[FieldSeq[i]] = a]]
                 ELSE h.objects[a]]]

\* reset(), lines 18-39: every field is bound to a new empty object; the
\* objects the fields were bound to stay as they are
reset_objects(h) ==
    [h EXCEPT !.objects = @ \o [i \in DOMAIN FieldSeq |-> reset(<<>>)[FieldSeq[i]]],
              !.self = [name \in {FieldSeq[i] : i \in DOMAIN FieldSeq} |->
                            Len(h.objects) + FieldAt(name)]]

\* the extractors and _calculate_stats change the objects the fields are
\* bound to, in place: after a step the objects hold the fields of s
written(h, s) ==
    [h EXCEPT !.objects =
        [a \in DOMAIN h.objects |->
            IF \E i \in DOMAIN FieldSeq : h.self[FieldSeq[i]] = a
            THEN s[FieldSeq[CHOOSE i \in DOMAIN FieldSeq : h.self[FieldSeq[i]] = a]]
            ELSE h.objects[a]]]

----------------------------------------------------------------------------
(* Reading and parsing *)

\* the outcome of a parse: the tree, or the message of the ParseError
Parsed(tree) == [ok |-> TRUE, tree |-> tree, msg |-> None]
ParseError(msg) == [ok |-> FALSE, tree |-> Document(<<>>), msg |-> msg]

\* _read_file_with_encoding: some codec of the list always decodes the bytes
\* (latin-1 accepts every byte); the text keeps the markup as it is
_read_file_with_encoding(f) == [tree |-> f.tree, well_formed |-> f.defect # "syntax"]

\* The message of a ParseError names expat's error and the place in the
\* input that was parsed: "file:" stands for a place in the bytes of the
\* file, "string:" for one in the text handed to ET.fromstring.

\* ET.parse(xml_file_path): the strict parse of the file's bytes
ET_parse(f) ==
    IF f.defect = "bytes" THEN ParseError("file: not well-formed (invalid token)")
    ELSE IF f.defect = "syntax" THEN ParseError("file: unclosed token")
    ELSE IF HasPrefix(f.tree) THEN ParseError("file: unbound prefix")
    ELSE Parsed(f.tree)

\* ET.fromstring(text)
ET_fromstring(text) ==
    IF ~text.well_formed THEN ParseError("string: unclosed token")
    ELSE IF HasPrefix(text.tree) THEN ParseError("string: unbound prefix")
    ELSE Parsed(text.tree)

problematic_prefixes == {"xml", "xmlns", "xsi", "uml", "xmi"}

\* re.sub(prefix + name, name): the listed prefixes are removed from the tags
RECURSIVE StripPrefixes(_)
StripPrefixes(n) ==
    [n EXCEPT !.pfx = IF @ \in problematic_prefixes THEN "" ELSE @,
              !.kids = [i \in DOMAIN n.kids |-> StripPrefixes(n.kids[i])]]

_clean_xml_content(text) == [text EXCEPT !.tree = StripPrefixes(text.tree)]

----------------------------------------------------------------------------
(* Extractors.  Each takes the instance and returns it changed, with the     *)
(* exception that escapes the extractor (None when it returns normally).     *)
(* `fault` injects an unexpected failure: <<>> for none, <<k>> for an        *)
(* exception raised when k candidates have been processed.                   *)

Outcome(s, exc) == [self |-> s, exc |-> exc]

Min(a, b) == IF a < b THEN a ELSE b

\* how many of n candidates are processed before the injected failure
Processed(n, fault) == IF fault = <<>> THEN n ELSE Min(fault[1], n)

\* the loop `for x in seq: s = Step(s, x)` over the first n entries
Loop(Step(_, _), s, seq, n) ==
    LET f[i \in 0..n] == IF i = 0 THEN s ELSE Step(f[i - 1], seq[i])
    IN  f[n]

\* _extract_notes: element.find('.//Notes') or element.find('.//Documentation')
_extract_notes(tree, elem) ==
    LET notes_elem == ElementOr(find(tree, elem, <<Desc("Notes")>>),
                                find(tree, elem, <<Desc("Documentation")>>))
    IN  IF notes_elem # NoElement
        THEN Or(notes_elem[1].node.text, "")
        ELSE get_default(elem.node, "Notes", "")

\* _extract_model_info
_extract_model_info(s, tree, fault) ==
    LET it == Iter(tree)
        model_candidates ==
            SelectSeq(it, LAMBDA x : Lower(x.node.tag) \in {"model", "documentation"})
        \* the loop stops at the first 'model' candidate (break)
        stop == IF \E i \in DOMAIN model_candidates :
                       Lower(model_candidates[i].node.tag) = "model"
                THEN CHOOSE i \in DOMAIN model_candidates :
                       /\ Lower(model_candidates[i].node.tag) = "model"
                       /\ \A j \in 1..(i - 1) :
                             Lower(model_candidates[j].node.tag) # "model"
                ELSE Len(model_candidates)
        Step(info, x) ==
            IF Lower(x.node.tag) = "documentation"
            THEN IF Truthy(x.node.text) THEN Store(info, "documentation", x.node.text)
                 ELSE info
            ELSE LET n == x.node
                     i1 == Store(info, "name",
                                 Or(get(n, "name"), Or(get(n, "Name"),
                                    Or(get(n, "xmi.name"), "Unnamed Model"))))
                     i2 == Store(i1, "id", Or(get(n, "xmi.id"), Or(get(n, "id"), get(n, "Id"))))
                     i3 == Store(i2, "type", Or(get(n, "Type"), Or(get(n, "type"), "UML Model")))
                     i4 == Store(i3, "created", Or(get(n, "Created"), get(n, "created")))
                 IN  Store(i4, "modified", Or(get(n, "Modified"), get(n, "modified")))
        found == Loop(Step, s.model_info, model_candidates, stop)
        named == Has(found, "name") /\ Truthy(Lookup(found, "name"))
        info == IF named THEN found
                ELSE Store(Store(found, "name",
                                 Or(get(tree, "name"), Or(get(tree, "Name"), "Extracted Model"))),
                           "type", "XML Root: " \o tree.tag)
    IN  IF fault = <<>>
        THEN Outcome([s EXCEPT !.model_info = info], None)
        \* the inner except stores the placeholders and returns
        ELSE Outcome([s EXCEPT !.model_info =
                          Store(Store(s.model_info, "name", "Unknown Model"),
                                "type", "Unknown")], None)

\* the condition under which _extract_packages takes a node as a package
package_candidate(n) ==
    \/ Lower(n.tag) \in {"package", "packages"}
    \/ Truthy(get(n, "Name")) /\ Truthy(get(n, "PackageID"))

\* one iteration of the loop of _extract_packages
add_package(tree, lay, s, pkg) ==
    LET n == pkg.node
        pkg_info ==
            [ id |-> Or(get(n, "Id"), Or(get(n, "id"), Or(get(n, "xmi.id"),
                        str_id(tree, lay, pkg.path)))),
              name |-> Or(get(n, "Name"), Or(get(n, "name"), "Unnamed Package")),
              parent_id |-> Or(get(n, "ParentID"), Or(get(n, "parent"), get(n, "owner"))),
              stereotype |-> Or(get(n, "Stereotype"), get(n, "stereotype")),
              notes |-> _extract_notes(tree, pkg),
              created |-> Or(get(n, "Created"), get(n, "created")),
              modified |-> Or(get(n, "Modified"), get(n, "modified")),
              author |-> Or(get(n, "Author"), get(n, "author")),
              version |-> Or(get(n, "Version"), get(n, "version")),
              elements |-> <<>>,
              sub_packages |-> <<>> ]
    IN  [s EXCEPT
            !.authors = IF Truthy(pkg_info.author) THEN @ \cup {pkg_info.author} ELSE @,
            !.versions = IF Truthy(pkg_info.version) THEN @ \cup {pkg_info.version} ELSE @,
            !.packages = Store(@, pkg_info.id, pkg_info),
            !.stats.total_packages = @ + 1]

\* _extract_packages; its own try/except swallows every failure
_extract_packages(s, tree, lay, fault) ==
    LET package_candidates == SelectSeq(Iter(tree), LAMBDA x : package_candidate(x.node))
        Step(t, pkg) == add_package(tree, lay, t, pkg)
    IN  Outcome(Loop(Step, s, package_candidates,
                     Processed(Len(package_candidates), fault)), None)

\* _extract_attributes: the list appended to elem_info['attributes']
_extract_attributes(tree, element) ==
    LET attrs == findall(tree, element, <<Desc("Attributes"), Child("Attribute")>>)
                 \o findall(tree, element, <<Desc("Attribute")>>)
        attr_info(attr) ==
            [ id |-> Or(get(attr.node, "Id"), get(attr.node, "id")),
              name |-> Or(get(attr.node, "Name"), get_default(attr.node, "name", "unnamed")),
              type |-> Or(get(attr.node, "Type"), get(attr.node, "type")),
              visibility |-> Or(get(attr.node, "Visibility"), get(attr.node, "visibility")),
              static |-> get(attr.node, "Static") = "true",
              default |-> get(attr.node, "Default"),
              notes |-> _extract_notes(tree, attr),
              stereotype |-> get(attr.node, "Stereotype") ]
    IN  [i \in DOMAIN attrs |-> attr_info(attrs[i])]

\* _extract_operations: the list appended to elem_info['operations']
_extract_operations(tree, element) ==
    LET ops == findall(tree, element, <<Desc("Operations"), Child("Operation")>>)
               \o findall(tree, element, <<Desc("Operation")>>)
        param_info(param) ==
            [ name |-> Or(get(param.node, "Name"), get(param.node, "name")),
              type |-> Or(get(param.node, "Type"), get(param.node, "type")),
              kind |-> get(param.node, "Kind"),
              default |-> get(param.node, "Default") ]
        op_info(op) ==
            LET params == findall(tree, op, <<Desc("Parameters"), Child("Parameter")>>)
                          \o findall(tree, op, <<Desc("Parameter")>>)
            IN  [ id |-> Or(get(op.node, "Id"), get(op.node, "id")),
                  name |-> Or(get(op.node, "Name"), get_default(op.node, "name", "unnamed")),
                  type |-> Or(get(op.node, "Type"), get(op.node, "type")),
                  visibility |-> Or(get(op.node, "Visibility"), get(op.node, "visibility")),
                  static |-> get(op.node, "Static") = "true",
                  abstract |-> get(op.node, "Abstract") = "true",
                  notes |-> _extract_notes(tree, op),
                  stereotype |-> get(op.node, "Stereotype"),
                  parameters |-> [i \in DOMAIN params |-> param_info(params[i])] ]
    IN  [i \in DOMAIN ops |-> op_info(ops[i])]

element_tags ==
    {"element", "class", "component", "actor", "usecase", "interface", "object",
     "node", "artifact"}

element_types ==
    {"Class", "Component", "Actor", "UseCase", "Interface", "Object", "Node", "Artifact"}

\* the condition under which _extract_elements takes a node as an element
element_candidate(n) ==
    \/ Lower(n.tag) \in element_tags
    \/ Truthy(get(n, "Name")) /\ Truthy(get(n, "Type")) /\ get(n, "Type") \in element_types

\* the entries a sub-extraction has appended to its list when it ends:
\* all of them, or those before the failure at `limit`
Appended(entries, limit) ==
    SubSeq(entries, 1, IF limit = <<>> THEN Len(entries) ELSE Min(limit[1], Len(entries)))

\* the try block of lines 277-282: _extract_attributes, then
\* _extract_operations, each appending to its list of elem_info.  `sub`
\* injects an unexpected failure: <<>> for none, <<facet, j>> for an
\* exception raised in the sub-extraction of that facet when j of its
\* entries have been appended; the except clause swallows it.  A failure of
\* the attributes leaves the operations not run.
attributes_limit(sub) ==
    IF sub # <<>> /\ sub[1] = "attributes" THEN <<sub[2]>> ELSE <<>>

operations_limit(sub) ==
    IF sub = <<>> THEN <<>> ELSE IF sub[1] = "attributes" THEN <<0>> ELSE <<sub[2]>>

\* one iteration of the loop of _extract_elements
add_element_with(tree, lay, s, elem, sub) ==
    LET n == elem.node
        elem_info ==
            [ id |-> Or(get(n, "Id"), Or(get(n, "id"), Or(get(n, "xmi.id"),
                        str_id(tree, lay, elem.path)))),
              name |-> Or(get(n, "Name"), Or(get(n, "name"), "Unnamed Element")),
              type |-> Or(get(n, "Type"), Or(get(n, "type"), n.tag)),
              package_id |-> Or(get(n, "PackageID"), Or(get(n, "package"), get(n, "owner"))),
              stereotype |-> Or(get(n, "Stereotype"), get(n, "stereotype")),
              notes |-> _extract_notes(tree, elem),
              abstract |-> (get(n, "Abstract") = "true" \/ get(n, "isAbstract") = "true"),
              visibility |-> Or(get(n, "Visibility"), get(n, "visibility")),
              created |-> Or(get(n, "Created"), get(n, "created")),
              modified |-> Or(get(n, "Modified"), get(n, "modified")),
              author |-> Or(get(n, "Author"), get(n, "author")),
              version |-> Or(get(n, "Version"), get(n, "version")),
              complexity |-> get(n, "Complexity"),
              status |-> Or(get(n, "Status"), get(n, "status")),
              attributes |-> Appended(_extract_attributes(tree, elem), attributes_limit(sub)),
              operations |-> Appended(_extract_operations(tree, elem), operations_limit(sub)),
              tagged_values |-> <<>> ]
    IN  [s EXCEPT
            !.stats.element_types = Incr(@, elem_info.type),
            !.authors = IF Truthy(elem_info.author) THEN @ \cup {elem_info.author} ELSE @,
            !.versions = IF Truthy(elem_info.version) THEN @ \cup {elem_info.version} ELSE @,
            !.elements = Store(@, elem_info.id, elem_info),
            !.stats.total_elements = @ + 1]

\* one iteration in which the sub-extractions do not fail
add_element(tree, lay, s, elem) == add_element_with(tree, lay, s, elem, <<>>)

\* _extract_elements; its own try/except swallows every failure.  A fault
\* <<k, facet, j>> is a failure inside the sub-extraction of the k-th
\* candidate, which the inner try block swallows.
_extract_elements(s, tree, lay, fault) ==
    LET element_candidates == SelectSeq(Iter(tree), LAMBDA x : element_candidate(x.node))
        inner == Len(fault) = 3
        Sub(elem) ==
            IF inner /\ fault[1] \in DOMAIN element_candidates
                     /\ element_candidates[fault[1]].path = elem.path
            THEN <<fault[2], fault[3]>> ELSE <<>>
        Step(t, elem) == add_element_with(tree, lay, t, elem, Sub(elem))
    IN  Outcome(Loop(Step, s, element_candidates,
                     Processed(Len(element_candidates), IF inner THEN <<>> ELSE fault)),
                None)

----------------------------------------------------------------------------
(* Strings *)

Char(str, i) == SubSeq(str, i, i)

Whitespace == {" "}

\* str.strip()
RECURSIVE strip(_)
strip(str) ==
    IF Len(str) = 0 THEN str
    ELSE IF Char(str, 1) \in Whitespace THEN strip(SubSeq(str, 2, Len(str)))
    ELSE IF Char(str, Len(str)) \in Whitespace THEN strip(SubSeq(str, 1, Len(str) - 1))
    ELSE str

\* `sub in str`
Contains(str, sub) ==
    \E i \in 1..(Len(str) - Len(sub) + 1) : SubSeq(str, i, i + Len(sub) - 1) = sub

ascii_letters ==
    {"a", "b", "c", "d", "e", "f", "g", "h", "i", "j", "k", "l", "m", "n", "o", "p",
     "q", "r", "s", "t", "u", "v", "w", "x", "y", "z",
     "A", "B", "C", "D", "E", "F", "G", "H", "I", "J", "K", "L", "M", "N", "O", "P",
     "Q", "R", "S", "T", "U", "V", "W", "X", "Y", "Z"}

digits == {"0", "1", "2", "3", "4", "5", "6", "7", "8", "9"}

base64_chars == ascii_letters \cup digits \cup {"+", "/", "="}

\* base64.b64decode(s, validate=True) does not raise, for s made of
\* base64_chars: the padding is at the end, and the data characters before
\* it are a whole number of quads, or end in two characters and "==", or in
\* three characters and "="
b64decode_ok(str) ==
    LET n == Len(str)
        d == IF \E i \in 1..n : Char(str, i) = "="
             THEN (CHOOSE i \in 1..n : Char(str, i) = "="
                                       /\ \A j \in 1..(i - 1) : Char(str, j) # "=") - 1
             ELSE n
        pad == n - d
    IN  /\ \A i \in (d + 1)..n : Char(str, i) = "="
        /\ IF d = 0 THEN pad = 0
           ELSE \/ d % 4 = 0
                \/ d % 4 = 2 /\ pad = 2
                \/ d % 4 = 3 /\ pad = 1

\* _is_base64 without the test of the characters
_is_base64_unchecked(str) ==
    IF Len(str) < 4 THEN FALSE ELSE b64decode_ok(str)

\* _is_base64
_is_base64(str) ==
    IF Len(str) < 4 THEN FALSE
    ELSE IF ~(\A i \in 1..Len(str) : Char(str, i) \in base64_chars) THEN FALSE
    ELSE b64decode_ok(str)

\* _detect_image_format, on the tag of the payload node
_detect_image_format(tag_name) ==
    LET tag_lower == Lower(tag_name)
    IN  IF Contains(tag_lower, "png") THEN "png"
        ELSE IF Contains(tag_lower, "jpg") \/ Contains(tag_lower, "jpeg") THEN "jpeg"
        ELSE IF Contains(tag_lower, "bmp") THEN "bmp"
        ELSE IF Contains(tag_lower, "metafile") \/ Contains(tag_lower, "emf")
                \/ Contains(tag_lower, "wmf") THEN "metafile"
        ELSE IF Contains(tag_lower, "image") THEN "image"
        ELSE "unknown"

----------------------------------------------------------------------------
(* Diagram extractor *)

\* the exception ElementPath raises for a prefixed path
PrefixError == "SyntaxError: prefix not found in prefix map"

\* _extract_diagram_elements: the six searches, concatenated
_extract_diagram_elements(tree, diagram_elem) ==
    LET element_sources ==
            findall(tree, diagram_elem, <<Desc("DiagramElements"), Child("DiagramElement")>>)
            \o findall(tree, diagram_elem, <<Desc("DiagramElement")>>)
            \o findall(tree, diagram_elem, <<Desc("elements"), Child("element")>>)
            \o findall(tree, diagram_elem, <<Desc("diagramElement")>>)
            \o findall(tree, diagram_elem, <<Desc("DiagramObjects"), Child("DiagramObject")>>)
            \o findall(tree, diagram_elem, <<Desc("DiagramObject")>>)
        diag_elem_info(x) ==
            [ element_id |-> Or(get(x.node, "ElementID"), Or(get(x.node, "element"),
                                Or(get(x.node, "Object_ID"), get(x.node, "objectId")))),
              geometry |-> Or(get(x.node, "Geometry"), get(x.node, "geometry")),
              style |-> Or(get(x.node, "Style"), get(x.node, "style")),
              left |-> get(x.node, "left"),
              top |-> get(x.node, "top"),
              right |-> get(x.node, "right"),
              bottom |-> get(x.node, "bottom"),
              sequence |-> get(x.node, "Sequence") ]
    IN  [i \in DOMAIN element_sources |-> diag_elem_info(element_sources[i])]

\* the paths of image_sources, in the order of the list
image_source_paths ==
    << <<Desc("Image")>>, <<Desc("MetaFile")>>, <<Desc("DiagramImage")>>,
       <<Desc("Metafile")>>,
       <<PDesc("xmi", "Extension"), Desc("image")>>,
       <<Desc("image")>>, <<Desc("png")>>, <<Desc("jpg")>>, <<Desc("bmp")>>,
       <<Desc("PDATA1")>>, <<Desc("PDATA2")>>, <<Desc("PDATA3")>>, <<Desc("StyleEx")>> >>

\* the classification of one payload node: <<>> when it is not classified,
\* else the image_data and image_format it sets (the loop then breaks)
classify_payload(img_elem) ==
    LET n == img_elem.node
        image_text == Or(n.text, Or(get(n, "data"), get(n, "content")))
    IN  IF ~(Truthy(image_text) /\ Truthy(strip(image_text))) THEN <<>>
        ELSE IF _is_base64(strip(image_text))
             THEN <<[image_data |-> strip(image_text),
                     image_format |-> _detect_image_format(n.tag)]>>
        ELSE IF Len(strip(image_text)) > 100
                /\ (Contains(image_text, "EMF") \/ Contains(image_text, "WMF"))
             THEN <<[image_data |-> strip(image_text), image_format |-> "metafile"]>>
        ELSE IF Len(strip(image_text)) > 50
             THEN <<[image_data |-> strip(image_text), image_format |-> "unknown"]>>
        ELSE <<>>

\* the loop over image_sources followed by the loop over image_refs
image_cascade(tree, diagram_elem, diag_info) ==
    LET image_sources ==
            [i \in DOMAIN image_source_paths |-> find(tree, diagram_elem, image_source_paths[i])]
        classified ==
            {i \in DOMAIN image_sources :
                image_sources[i] # NoElement /\ classify_payload(image_sources[i][1]) # <<>>}
        first == CHOOSE i \in classified : \A j \in classified : i <= j
        after_sources ==
            IF classified = {} THEN diag_info
            ELSE LET c == classify_payload(image_sources[first][1])[1]
                 IN  [diag_info EXCEPT !.has_image = TRUE,
                                       !.image_data = c.image_data,
                                       !.image_format = c.image_format]
        image_refs == << get(diagram_elem.node, "ImageFile"), get(diagram_elem.node, "imageFile"),
                         get(diagram_elem.node, "ImagePath"), get(diagram_elem.node, "imagePath") >>
        refs == {i \in DOMAIN image_refs : Truthy(image_refs[i])}
        ref == image_refs[CHOOSE i \in refs : \A j \in refs : i <= j]
    IN  IF refs = {} THEN after_sources
        ELSE [after_sources EXCEPT !.has_image = TRUE,
                                   !.image_data = ref,
                                   !.image_format = "file_reference"]

\* _extract_diagram_image_enhanced: building image_sources raises on the
\* prefixed path before any payload is looked at
_extract_diagram_image_enhanced(tree, diagram_elem, diag_info) ==
    IF \E i \in DOMAIN image_source_paths : PathRaises(image_source_paths[i])
    THEN [info |-> diag_info, exc |-> PrefixError]
    ELSE [info |-> image_cascade(tree, diagram_elem, diag_info), exc |-> None]

\* the searches of _extract_diagrams that are made, in order ('uml' is never
\* in the namespaces map, which no code sets)
diagram_paths ==
    << <<Desc("Diagrams"), Child("Diagram")>>,
       <<Desc("Diagram")>>,
       <<Desc("diagrams"), Child("diagram")>>,
       <<PDesc("xmi", "Extension"), Desc("diagrams")>>,
       <<Desc("t_diagram")>>,
       <<Desc("EAP"), Desc("diagrams"), Desc("diagram")>> >>

\* the candidates without the ones already seen (same node identity)
RECURSIVE unique(_)
unique(cands) ==
    IF cands = <<>> THEN <<>>
    ELSE LET front == unique(Front(cands))
             last == cands[Len(cands)]
         IN  IF \E i \in DOMAIN front : front[i].path = last.path
             THEN front ELSE Append(front, last)

\* the fields of diag_info before the image is looked for
diagram_info(tree, lay, diag) ==
    LET n == diag.node
    IN  [ id |-> Or(get(n, "Id"), Or(get(n, "xmi.id"), Or(get(n, "id"),
                    Or(get(n, "diagramId"), str_id(tree, lay, diag.path))))),
          name |-> Or(get(n, "Name"), Or(get(n, "name"),
                      Or(get(n, "xmi:name"), "Unnamed Diagram"))),
          type |-> Or(get(n, "Type"), Or(get(n, "type"), Or(get(n, "DiagramType"), "Unknown"))),
          package_id |-> Or(get(n, "PackageID"), Or(get(n, "package"), get(n, "owner"))),
          author |-> Or(get(n, "Author"), get(n, "author")),
          created |-> Or(get(n, "Created"), get(n, "created")),
          modified |-> Or(get(n, "Modified"), get(n, "modified")),
          version |-> Or(get(n, "Version"), get(n, "version")),
          notes |-> _extract_notes(tree, diag),
          elements |-> _extract_diagram_elements(tree, diag),
          has_image |-> FALSE,
          image_data |-> None,
          image_format |-> None,
          style_ex |-> get(n, "StyleEx"),
          swim_lanes |-> get(n, "SwimLanes"),
          scale |-> get(n, "Scale") ]

\* one iteration of the loop of _extract_diagrams, for an image search that
\* returned normally
add_diagram(s, diag_info) ==
    [s EXCEPT
        !.stats.diagram_types = Incr(@, diag_info.type),
        !.authors = IF Truthy(diag_info.author) THEN @ \cup {diag_info.author} ELSE @,
        !.versions = IF Truthy(diag_info.version) THEN @ \cup {diag_info.version} ELSE @,
        !.diagrams = Store(@, diag_info.id, diag_info),
        !.stats.total_diagrams = @ + 1]

\* the loop of _extract_diagrams over unique_diagrams from position i on; an
\* exception of the image search leaves the loop and the extractor
RECURSIVE diagram_loop(_, _, _, _, _, _)
diagram_loop(s, tree, lay, unique_diagrams, i, n) ==
    IF i > n THEN Outcome(s, None)
    ELSE LET img == _extract_diagram_image_enhanced(
                        tree, unique_diagrams[i], diagram_info(tree, lay, unique_diagrams[i]))
         IN  IF img.exc # None THEN Outcome(s, img.exc)
             ELSE diagram_loop(add_diagram(s, img.info), tree, lay, unique_diagrams, i + 1, n)

\* _extract_diagrams: no try/except of its own
_extract_diagrams(s, tree, lay, fault) ==
    IF \E i \in DOMAIN diagram_paths : PathRaises(diagram_paths[i])
    THEN Outcome(s, PrefixError)
    ELSE LET RECURSIVE Cat(_)
             Cat(i) == IF i = 0 THEN <<>>
                       ELSE Cat(i - 1) \o findall(tree, [node |-> tree, path |-> <<>>],
                                                  diagram_paths[i])
             unique_diagrams == unique(Cat(Len(diagram_paths)))
             out == diagram_loop(s, tree, lay, unique_diagrams, 1,
                                 Processed(Len(unique_diagrams), fault))
         IN  IF out.exc = None /\ fault # <<>> THEN Outcome(out.self, "Exception") ELSE out

----------------------------------------------------------------------------
(* Connector and tagged-value extractors *)

\* a role descriptor or None: a sequence of at most one record
role_info(role) ==
    IF role = NoElement THEN <<>>
    ELSE <<[ name |-> Or(get(role[1].node, "Name"), get(role[1].node, "name")),
             multiplicity |-> get(role[1].node, "Multiplicity"),
             visibility |-> get(role[1].node, "Visibility") ]>>

\* one iteration of the loop of _extract_connectors
add_connector(tree, s, conn) ==
    LET n == conn.node
        source_role == ElementOr(find(tree, conn, <<Desc("SourceRole")>>),
                                 find(tree, conn, <<Desc("Source")>>))
        target_role == ElementOr(find(tree, conn, <<Desc("TargetRole")>>),
                                 find(tree, conn, <<Desc("Target")>>))
        conn_info ==
            [ id |-> Or(get(n, "Id"), get(n, "id")),
              name |-> Or(get(n, "Name"), get(n, "name")),
              type |-> Or(get(n, "Type"), get(n, "type")),
              source_id |-> Or(get(n, "SourceID"), get(n, "source")),
              target_id |-> Or(get(n, "TargetID"), get(n, "target")),
              direction |-> get(n, "Direction"),
              stereotype |-> get(n, "Stereotype"),
              notes |-> _extract_notes(tree, conn),
              source_role |-> role_info(source_role),
              target_role |-> role_info(target_role) ]
    IN  [s EXCEPT
            !.stats.connector_types = Incr(@, conn_info.type),
            !.connectors = Store(@, conn_info.id, conn_info),
            !.stats.total_connectors = @ + 1]

\* _extract_connectors keeping only the connectors whose two ends are
\* elements of the model
_extract_connectors_resolved(s, tree, fault) ==
    LET top == [node |-> tree, path |-> <<>>]
        connectors == findall(tree, top, <<Desc("Connectors"), Child("Connector")>>)
                      \o findall(tree, top, <<Desc("Connector")>>)
        Step(t, conn) ==
            IF /\ Has(t.elements, Or(get(conn.node, "SourceID"), get(conn.node, "source")))
               /\ Has(t.elements, Or(get(conn.node, "TargetID"), get(conn.node, "target")))
            THEN add_connector(tree, t, conn)
            ELSE t
    IN  Outcome(Loop(Step, s, connectors, Processed(Len(connectors), fault)),
                IF fault = <<>> THEN None ELSE "Exception")

\* _extract_connectors: no try/except of its own
_extract_connectors(s, tree, fault) ==
    LET top == [node |-> tree, path |-> <<>>]
        connectors == findall(tree, top, <<Desc("Connectors"), Child("Connector")>>)
                      \o findall(tree, top, <<Desc("Connector")>>)
        Step(t, conn) == add_connector(tree, t, conn)
    IN  Outcome(Loop(Step, s, connectors, Processed(Len(connectors), fault)),
                IF fault = <<>> THEN None ELSE "Exception")

\* one iteration of the loop of _extract_tagged_values
add_tagged_value(tree, s, tv) ==
    LET element_id == Or(get(tv.node, "ElementID"), get(tv.node, "element"))
        tag_info == [ name |-> Or(get(tv.node, "Name"), get(tv.node, "name")),
                      value |-> Or(get(tv.node, "Value"), Or(get(tv.node, "value"), tv.node.text)),
                      notes |-> _extract_notes(tree, tv) ]
    IN  IF Truthy(element_id)
        THEN [s EXCEPT !.tagged_values =
                 Store(@, element_id,
                       Append(IF Has(@, element_id) THEN Lookup(@, element_id) ELSE <<>>,
                              tag_info))]
        ELSE s

\* _extract_tagged_values: no try/except of its own
_extract_tagged_values(s, tree, fault) ==
    LET top == [node |-> tree, path |-> <<>>]
        tagged_values == findall(tree, top, <<Desc("TaggedValues"), Child("TaggedValue")>>)
                         \o findall(tree, top, <<Desc("TaggedValue")>>)
        Step(t, tv) == add_tagged_value(tree, t, tv)
    IN  Outcome(Loop(Step, s, tagged_values, Processed(Len(tagged_values), fault)),
                IF fault = <<>> THEN None ELSE "Exception")

----------------------------------------------------------------------------
(* Assembler *)

\* self.packages[key][field].append(x)
AppendTo(packages, key, field, x) ==
    [i \in DOMAIN packages |->
        IF packages[i].k = key
        THEN [packages[i] EXCEPT !.v[field] = Append(@, x)]
        ELSE packages[i]]

\* link_sub_packages done while the packages are met: a child is linked only
\* to a parent that was extracted before it
link_sub_packages_in_extraction_order(packages) ==
    LET f[i \in 0..Len(packages)] ==
            IF i = 0 THEN packages
            ELSE IF /\ Truthy(packages[i].v.parent_id)
                    /\ Has(SubSeq(packages, 1, i - 1), packages[i].v.parent_id)
                 THEN AppendTo(f[i - 1], packages[i].v.parent_id, "sub_packages",
                               packages[i].k)
                 ELSE f[i - 1]
    IN  f[Len(packages)]

\* the first loop of _calculate_stats: the package hierarchy
link_sub_packages(packages) ==
    LET Step(pkgs, entry) ==
            IF Truthy(entry.v.parent_id) /\ Has(pkgs, entry.v.parent_id)
            THEN AppendTo(pkgs, entry.v.parent_id, "sub_packages", entry.k)
            ELSE pkgs
    IN  Loop(Step, packages, packages, Len(packages))

\* link_elements appending the wrong variable: the package's id, not the
\* element's
link_elements_by_package_id(packages, elements) ==
    LET Step(pkgs, entry) ==
            IF Truthy(entry.v.package_id) /\ Has(pkgs, entry.v.package_id)
            THEN AppendTo(pkgs, entry.v.package_id, "elements", entry.v.package_id)
            ELSE pkgs
    IN  Loop(Step, packages, elements, Len(elements))

\* the second loop of _calculate_stats: the members of the packages
link_elements(packages, elements) ==
    LET Step(pkgs, entry) ==
            IF Truthy(entry.v.package_id) /\ Has(pkgs, entry.v.package_id)
            THEN AppendTo(pkgs, entry.v.package_id, "elements", entry.k)
            ELSE pkgs
    IN  Loop(Step, packages, elements, Len(elements))

\* a third loop that gives an element the first tagged value of its list only
attach_first_tagged_value(elements, tagged_values) ==
    [i \in DOMAIN elements |->
        IF Has(tagged_values, elements[i].k)
        THEN [elements[i] EXCEPT
                 !.v.tagged_values = SubSeq(Lookup(tagged_values, elements[i].k), 1, 1)]
        ELSE elements[i]]

\* the third loop of _calculate_stats: the tagged values of the elements
attach_tagged_values(elements, tagged_values) ==
    [i \in DOMAIN elements |->
        IF Has(tagged_values, elements[i].k)
        THEN [elements[i] EXCEPT !.v.tagged_values = Lookup(tagged_values, elements[i].k)]
        ELSE elements[i]]

_calculate_stats(s) ==
    [s EXCEPT !.packages = link_elements(link_sub_packages(s.packages), s.elements),
              !.elements = attach_tagged_values(s.elements, s.tagged_values)]

\* the dictionary analyze_file returns (file_name and file_size, which are
\* read off the path and the text, are left out; authors and versions stay
\* the sets they are collected in, list() giving them the order of the
\* process's string hashing)
model_of(s) ==
    [ model_info |-> s.model_info, stats |-> s.stats, packages |-> s.packages,
      elements |-> s.elements, diagrams |-> s.diagrams, connectors |-> s.connectors,
      tagged_values |-> s.tagged_values, authors |-> s.authors, versions |-> s.versions ]

\* lines 100-112: the returned dictionary is bound to the objects of six
\* fields themselves and to three new objects, dict(self.tagged_values),
\* list(self.authors) and list(self.versions)
returned_dict(h, s) ==
    LET n == Len(h.objects)
        keys == [ model_info |-> h.self.model_info, stats |-> h.self.stats,
                  packages |-> h.self.packages, elements |-> h.self.elements,
                  diagrams |-> h.self.diagrams, connectors |-> h.self.connectors,
                  tagged_values |-> n + 1, authors |-> n + 2, versions |-> n + 3 ]
    IN  [h EXCEPT !.objects = @ \o <<s.tagged_values, s.authors, s.versions>>,
                  !.results = Append(@, [keys |-> keys, returned |-> model_of(s)])]

\* the model a returned dictionary holds now
Deref(h, keys) == [k \in DOMAIN keys |-> h.objects[keys[k]]]

----------------------------------------------------------------------------
(* analyze_file, step by step.  A frame is one activation of analyze_file:  *)
(* the instance, the locals and the position.  Each step is a function on   *)
(* frames; `lay` is the layout the parser's allocations happen to get.      *)

NoResult == [kind |-> "none"]
Returned(model) == [kind |-> "return", value |-> model]
Raised(type, msg) == [kind |-> "raise", type |-> type, msg |-> msg]

Call(name, exc) == [name |-> name, exc |-> exc]

NoFile == File(Document(<<>>), "none")

\* an instance on which analyze_file is not running
Idle(s) ==
    [ self |-> s, pc |-> "idle", file |-> NoFile, content |-> <<>>, root |-> <<>>,
      layout |-> 1, e |-> None, calls |-> <<>>, result |-> NoResult ]

\* lines 43-46: reset(), then the file is read
enter(fr, f) ==
    [ self |-> reset(fr.self), pc |-> "parse1", file |-> f,
      content |-> <<_read_file_with_encoding(f)>>, root |-> <<>>,
      layout |-> fr.layout, e |-> None,
      calls |-> <<Call("reset", None), Call("_read_file_with_encoding", None)>>,
      result |-> NoResult ]

\* a parse strategy succeeded: root is bound and the extractors follow
bind(fr, parsed, lay) ==
    [fr EXCEPT !.root = <<parsed.tree>>, !.layout = lay, !.pc = "model_info"]

\* parse_file without the way out of the cascade: the string reparse follows
\* a strict parse that succeeded
parse_file_falling_through(fr, lay) ==
    LET parsed == ET_parse(fr.file)
        called == [fr EXCEPT !.calls = Append(@, Call("ET.parse", parsed.msg))]
    IN  IF parsed.ok THEN [bind(called, parsed, lay) EXCEPT !.pc = "parse2"]
        ELSE [called EXCEPT !.e = parsed.msg, !.pc = "parse2"]

\* lines 49-53: strategy 1, ET.parse(xml_file_path)
parse_file(fr, lay) ==
    LET parsed == ET_parse(fr.file)
        called == [fr EXCEPT !.calls = Append(@, Call("ET.parse", parsed.msg))]
    IN  IF parsed.ok THEN bind(called, parsed, lay)
        ELSE [called EXCEPT !.e = parsed.msg, !.pc = "parse2"]

\* lines 54-57: strategy 2, ET.fromstring(content)
parse_string(fr, lay) ==
    LET parsed == ET_fromstring(fr.content[1])
        called == [fr EXCEPT !.calls = Append(@, Call("ET.fromstring", parsed.msg))]
    IN  IF parsed.ok THEN bind(called, parsed, lay)
        ELSE [called EXCEPT !.pc = "parse3"]

\* parse_cleaned raising with the message of the parse that failed last
parse_cleaned_last_message(fr, lay) ==
    LET cleaned_content == _clean_xml_content(fr.content[1])
        parsed == ET_fromstring(cleaned_content)
        called == [fr EXCEPT !.calls = @ \o <<Call("_clean_xml_content", None),
                                               Call("ET.fromstring", parsed.msg)>>]
    IN  IF parsed.ok THEN bind(called, parsed, lay)
        ELSE [called EXCEPT !.result = Raised("ValueError",
                                              "Invalid XML format: " \o parsed.msg),
                            !.pc = "done"]

\* lines 59-64: strategy 3, the cleaned content; ValueError when it fails too
parse_cleaned(fr, lay) ==
    LET cleaned_content == _clean_xml_content(fr.content[1])
        parsed == ET_fromstring(cleaned_content)
        called == [fr EXCEPT !.calls = @ \o <<Call("_clean_xml_content", None),
                                               Call("ET.fromstring", parsed.msg)>>]
    IN  IF parsed.ok THEN bind(called, parsed, lay)
        ELSE [called EXCEPT !.result = Raised("ValueError", "Invalid XML format: " \o fr.e),
                            !.pc = "done"]

\* a try block without its `except Exception`: what escapes the extractor
\* ends the call
extracted_unguarded(fr, name, out, next) ==
    IF out.exc = None
    THEN [fr EXCEPT !.self = out.self, !.calls = Append(@, Call(name, None)), !.pc = next]
    ELSE [fr EXCEPT !.self = out.self, !.calls = Append(@, Call(name, out.exc)),
                    !.result = Raised("Exception", out.exc), !.pc = "done"]

\* a try block of lines 67-95: the extractor runs, `except Exception` catches
\* what escapes it, and the next block follows
extracted(fr, name, out, next) ==
    [fr EXCEPT !.self = out.self, !.calls = Append(@, Call(name, out.exc)), !.pc = next]

extract_model_info(fr, fault) ==
    extracted(fr, "_extract_model_info",
              _extract_model_info(fr.self, fr.root[1], fault), "packages")

extract_packages(fr, fault) ==
    extracted(fr, "_extract_packages",
              _extract_packages(fr.self, fr.root[1], fr.layout, fault), "elements")

extract_elements(fr, fault) ==
    extracted(fr, "_extract_elements",
              _extract_elements(fr.self, fr.root[1], fr.layout, fault), "diagrams")

extract_diagrams(fr, fault) ==
    extracted(fr, "_extract_diagrams",
              _extract_diagrams(fr.self, fr.root[1], fr.layout, fault), "connectors")

extract_connectors(fr, fault) ==
    extracted(fr, "_extract_connectors",
              _extract_connectors(fr.self, fr.root[1], fault), "tagged_values")

extract_tagged_values(fr, fault) ==
    extracted(fr, "_extract_tagged_values",
              _extract_tagged_values(fr.self, fr.root[1], fault), "stats")

\* line 98
calculate_stats(fr) ==
    [fr EXCEPT !.self = _calculate_stats(@),
               !.calls = Append(@, Call("_calculate_stats", None)),
               !.pc = "return"]

\* lines 100-112
return_model(fr) == [fr EXCEPT !.result = Returned(model_of(fr.self)), !.pc = "done"]

\* the next step of a running call
step(fr, lay, fault) ==
    CASE fr.pc = "parse1" -> parse_file(fr, lay)
      [] fr.pc = "parse2" -> parse_string(fr, lay)
      [] fr.pc = "parse3" -> parse_cleaned(fr, lay)
      [] fr.pc = "model_info" -> extract_model_info(fr, fault)
      [] fr.pc = "packages" -> extract_packages(fr, fault)
      [] fr.pc = "elements" -> extract_elements(fr, fault)
      [] fr.pc = "diagrams" -> extract_diagrams(fr, fault)
      [] fr.pc = "connectors" -> extract_connectors(fr, fault)
      [] fr.pc = "tagged_values" -> extract_tagged_values(fr, fault)
      [] fr.pc = "stats" -> calculate_stats(fr)
      [] fr.pc = "return" -> return_model(fr)

\* a call run to its end without injected failures: the frame after the
\* next step is computed once, then the run goes on from it
RECURSIVE run(_, _)
run(fr, lay) ==
    IF fr.pc = "done" THEN fr
    ELSE CHOOSE end \in {run(next, lay) : next \in {step(fr, lay, <<>>)}} : TRUE

\* analyzer.analyze_file(f) as one function: the frame when the call ends
analyze_file(s, f, lay) ==
    CHOOSE end \in {run(fr, lay) : fr \in {enter(Idle(s), f)}} : TRUE

----------------------------------------------------------------------------
(* The running call *)

Frame ==
    [ self |-> self, pc |-> pc, file |-> file, content |-> content, root |-> root,
      layout |-> layout, e |-> e, calls |-> calls, result |-> result ]

Becomes(fr) ==
    /\ self' = fr.self
    /\ pc' = fr.pc
    /\ file' = fr.file
    /\ content' = fr.content
    /\ root' = fr.root
    /\ layout' = fr.layout
    /\ e' = fr.e
    /\ calls' = fr.calls
    /\ result' = fr.result

Layouts == 1..MaxLayout

\* the injected failures an extractor can meet
Faults(inject) == IF inject THEN {<<>>} \cup {<<k>> : k \in 0..MaxNodes} ELSE {<<>>}

Running == pc \notin {"idle", "done"}

ParseFile ==
    /\ pc = "parse1"
    /\ \E lay \in Layouts : Becomes(parse_file(Frame, lay))
    /\ UNCHANGED <<ncalls, inst, prev, gui, unit, heap>>

ParseString ==
    /\ pc = "parse2"
    /\ \E lay \in Layouts : Becomes(parse_string(Frame, lay))
    /\ UNCHANGED <<ncalls, inst, prev, gui, unit, heap>>

ParseCleaned ==
    /\ pc = "parse3"
    /\ \E lay \in Layouts : Becomes(parse_cleaned(Frame, lay))
    /\ UNCHANGED <<ncalls, inst, prev, gui, unit, heap>>

ExtractModelInfo(inject) ==
    /\ pc = "model_info"
    /\ \E fault \in Faults(inject) : Becomes(extract_model_info(Frame, fault))
    /\ UNCHANGED <<ncalls, inst, prev, gui, unit, heap>>

ExtractPackages(inject) ==
    /\ pc = "packages"
    /\ \E fault \in Faults(inject) : Becomes(extract_packages(Frame, fault))
    /\ UNCHANGED <<ncalls, inst, prev, gui, unit, heap>>

ExtractElements(inject) ==
    /\ pc = "elements"
    /\ \E fault \in Faults(inject) : Becomes(extract_elements(Frame, fault))
    /\ UNCHANGED <<ncalls, inst, prev, gui, unit, heap>>

ExtractDiagrams(inject) ==
    /\ pc = "diagrams"
    /\ \E fault \in Faults(inject) : Becomes(extract_diagrams(Frame, fault))
    /\ UNCHANGED <<ncalls, inst, prev, gui, unit, heap>>

ExtractConnectors(inject) ==
    /\ pc = "connectors"
    /\ \E fault \in Faults(inject) : Becomes(extract_connectors(Frame, fault))
    /\ UNCHANGED <<ncalls, inst, prev, gui, unit, heap>>

ExtractTaggedValues(inject) ==
    /\ pc = "tagged_values"
    /\ \E fault \in Faults(inject) : Becomes(extract_tagged_values(Frame, fault))
    /\ UNCHANGED <<ncalls, inst, prev, gui, unit, heap>>

CalculateStats ==
    /\ pc = "stats"
    /\ Becomes(calculate_stats(Frame))
    /\ UNCHANGED <<ncalls, inst, prev, gui, unit, heap>>

Return ==
    /\ pc = "return"
    /\ Becomes(return_model(Frame))
    /\ UNCHANGED <<ncalls, inst, prev, gui, unit, heap>>

\* the steps of a running analyze_file call
Steps(inject) ==
    \/ ParseFile
    \/ ParseString
    \/ ParseCleaned
    \/ ExtractModelInfo(inject)
    \/ ExtractPackages(inject)
    \/ ExtractElements(inject)
    \/ ExtractDiagrams(inject)
    \/ ExtractConnectors(inject)
    \/ ExtractTaggedValues(inject)
    \/ CalculateStats
    \/ Return

----------------------------------------------------------------------------
(* Spec: one analyze_file call on a new instance *)

\* EAAnalyzerGUI.__init__ and create_widgets: the window before any event.
\* `views` is what the result tabs show, `messagebox` the dialog shown last,
\* `after` the callbacks root.after(0, ...) has queued for the main loop,
\* `ran` those the main loop has run, `threads` the worker threads started,
\* `exported` what export_json wrote last.
NoGui ==
    [ current_file |-> <<>>, analysis_results |-> <<>>,
      analyze_btn |-> "disabled", generate_btn |-> "disabled",
      status_label |-> "Ready", views |-> <<>>, messagebox |-> <<>>,
      after |-> <<>>, ran |-> <<>>, threads |-> <<>>, exported |-> <<>> ]

\* the k-th EAXMLAnalyzer object, on which analyze_file was not called yet
NewInstance(k) == [id |-> k, calls |-> 0]

\* no helper method was called directly yet
NoCall == <<>>

\* before EAXMLAnalyzer() is called: no object, no field
NoHeap == [objects |-> <<>>, self |-> <<>>, results |-> <<>>]

Init ==
    /\ self = reset(<<>>)
    /\ pc = "idle"
    /\ file = NoFile
    /\ content = <<>>
    /\ root = <<>>
    /\ layout = 1
    /\ e = None
    /\ calls = <<>>
    /\ result = NoResult
    /\ ncalls = 0
    /\ inst = NewInstance(1)
    /\ prev = <<>>
    /\ gui = NoGui
    /\ unit = NoCall
    /\ heap = reset_objects(NoHeap)

\* the caller calls analyzer.analyze_file(path), the path of one of `files`
CallAnalyzeFileOn(files) ==
    /\ pc = "idle"
    /\ \E f \in files : Becomes(enter(Frame, f))
    /\ ncalls' = ncalls + 1
    /\ inst' = [inst EXCEPT !.calls = @ + 1]
    /\ UNCHANGED <<prev, gui, unit, heap>>

CallAnalyzeFile == CallAnalyzeFileOn(Files)

Next == CallAnalyzeFile \/ Steps(FALSE)

Spec == Init /\ [][Next]_vars

----------------------------------------------------------------------------
(* SpecFault: one analyze_file call in which any extractor may fail at any  *)
(* candidate                                                                *)

\* the items of the documents of SpecFault: candidates of every extractor,
\* and a package only the cleaned text lets parse
FaultItems ==
    {n \in Items : \/ n.pfx = "uml"
                   \/ n.pfx = "" /\ n.tag \in {"Model", "Element", "Thing", "Connector",
                                                "Connectors", "TaggedValue"}}

FaultFiles == {File(Document(items), "none") : items \in SeqsUpTo(FaultItems, MaxNodes)}

CallAnalyzeFaulty == CallAnalyzeFileOn(FaultFiles)

NextFault == CallAnalyzeFaulty \/ Steps(TRUE)

SpecFault == Init /\ [][NextFault]_vars

----------------------------------------------------------------------------
(* SpecDetail: one analyze_file call on documents whose entities carry      *)
(* nested detail: tagged values, notes, roles                               *)

DetailItems ==
    { Node("Class", {<<"Id", "E1">>}, None, <<>>),
      \* an element holding a tagged value that names no owner
      Node("Class", {<<"Id", "E2">>}, None,
           << Node("TaggedValues", {}, None,
                   << Node("TaggedValue", {<<"Name", "inner">>, <<"Value", "x">>},
                           None, <<>>) >>) >>),
      \* tagged values: owned by E1 (both spellings), by no one, by E2 inside
      \* a container, and by an id that is no element's
      Node("TaggedValue", {<<"ElementID", "E1">>, <<"Name", "k">>, <<"Value", "v">>},
           None, <<>>),
      Node("TaggedValue", {<<"element", "E1">>, <<"name", "k2">>}, "t", <<>>),
      Node("TaggedValue", {<<"Name", "lost">>, <<"Value", "v">>}, None, <<>>),
      Node("TaggedValues", {}, None,
           << Node("TaggedValue", {<<"ElementID", "E2">>, <<"Name", "twice">>,
                                   <<"Value", "w">>}, None, <<>>) >>),
      Node("TaggedValue", {<<"ElementID", "E9">>, <<"Name", "far">>}, None, <<>>),
      \* connectors: a SourceRole without child nodes beside a TargetRole with
      \* one, the generic Source and Target, and a SourceRole beside a Source
      Node("Connector", {<<"Id", "C1">>}, None,
           << Node("SourceRole", {<<"Name", "src">>, <<"Multiplicity", "1">>}, None, <<>>),
              Node("TargetRole", {<<"name", "tgt">>, <<"Visibility", "Public">>}, None,
                   << Node("Constraint", {}, None, <<>>) >>) >>),
      Node("Connector", {<<"Id", "C2">>}, None,
           << Node("Source", {<<"name", "s">>}, None, <<>>),
              Node("Target", {<<"Name", "t">>, <<"Multiplicity", "0..*">>}, None, <<>>) >>),
      Node("Connector", {<<"Id", "C3">>}, None,
           << Node("SourceRole", {<<"Name", "role">>}, None, <<>>),
              Node("Source", {<<"Name", "generic">>}, None, <<>>) >>),
      \* an element only the cleaned text lets parse
      Prefixed("uml", Node("Class", {<<"Id", "E5">>}, None, <<>>)) }

DetailFiles ==
    {File(Document(items), "none") : items \in SeqsUpTo(DetailItems, MaxNodes)}
    \cup {File(Document(<<>>), "bytes")}

CallAnalyzeDetail == CallAnalyzeFileOn(DetailFiles)

NextDetail == CallAnalyzeDetail \/ Steps(FALSE)

SpecDetail == Init /\ [][NextDetail]_vars

----------------------------------------------------------------------------
(* SpecSeq: a caller that constructs analyzers and calls analyze_file on    *)
(* them one call after the other                                            *)

\* the files of SpecSeq: two nodes without an id of one collection, one of
\* each of two collections, scenario A, a document whose class has a tagged
\* value, one the cleaning repairs, and one no strategy parses
SeqFiles ==
    { File(Document(<< Package({<<"Name", "Anon">>, <<"ParentID", "P9">>}),
                       Package({<<"Name", "Anon">>, <<"ParentID", "P9">>}) >>), "none"),
      File(Document(<< Package({<<"Name", "Anon">>, <<"ParentID", "P9">>}),
                       Node("Component", {<<"name", "c">>, <<"owner", "P2">>}, None, <<>>) >>),
           "none"),
      File(Document(<< Package({<<"Id", "P1">>, <<"Name", "Core">>}),
                       Node("Element", {<<"Id", "E1">>, <<"Name", "Order">>,
                                        <<"Type", "Class">>, <<"PackageID", "P1">>},
                            None, <<>>) >>), "none"),
      File(Document(<< Node("Class", {<<"Id", "E1">>, <<"Name", "Late">>}, None, <<>>),
                       Node("TaggedValue", {<<"ElementID", "E1">>, <<"Name", "k">>,
                                            <<"Value", "v">>}, None, <<>>) >>), "none"),
      File(Document(<< Prefixed("uml", Package({<<"Id", "P4">>, <<"Name", "Uml">>})) >>),
           "none"),
      File(Document(<< Package({<<"Id", "P1">>, <<"Name", "Core">>}) >>), "syntax") }

\* the last call that ended, as the caller saw it
Ended ==
    IF pc = "done"
    THEN <<[file |-> file, inst |-> inst, root |-> root, layout |-> layout,
            result |-> result]>>
    ELSE prev

\* analyzer = EAXMLAnalyzer(): __init__ calls reset() on the new object
Construct ==
    /\ pc \in {"idle", "done"}
    /\ inst.id < MaxCalls
    /\ Becomes(Idle(reset(<<>>)))
    /\ inst' = NewInstance(inst.id + 1)
    /\ prev' = Ended
    /\ UNCHANGED <<ncalls, gui, unit, heap>>

\* analyzer.analyze_file(path) on the current instance, used before or not
AnalyzeNext ==
    /\ pc \in {"idle", "done"}
    /\ ncalls < MaxCalls
    /\ \E f \in SeqFiles : Becomes(enter(Frame, f))
    /\ ncalls' = ncalls + 1
    /\ inst' = [inst EXCEPT !.calls = @ + 1]
    /\ prev' = Ended
    /\ UNCHANGED <<gui, unit, heap>>

NextSeq == Construct \/ AnalyzeNext \/ Steps(FALSE)

SpecSeq == Init /\ [][NextSeq]_vars

----------------------------------------------------------------------------
(* SpecHeap: calls of analyze_file on one instance, with the objects the    *)
(* fields and the returned dictionaries are bound to                        *)

\* analyzer.analyze_file(path) on the instance, used before or not: reset()
\* binds the fields anew and the file is read
HeapAnalyze ==
    /\ pc \in {"idle", "done"}
    /\ ncalls < MaxCalls
    /\ \E f \in SeqFiles : Becomes(enter(Frame, f))
    /\ heap' = reset_objects(heap)
    /\ ncalls' = ncalls + 1
    /\ inst' = [inst EXCEPT !.calls = @ + 1]
    /\ prev' = Ended
    /\ UNCHANGED <<gui, unit>>

\* the next step of the running call, which changes the objects of the
\* fields in place; the last step binds the returned dictionary
HeapStep ==
    /\ Running
    /\ \E lay \in Layouts : \E fr \in {step(Frame, lay, <<>>)} :
          /\ Becomes(fr)
          /\ heap' = IF fr.result.kind = "return"
                     THEN returned_dict(written(heap, fr.self), fr.self)
                     ELSE written(heap, fr.self)
    /\ UNCHANGED <<ncalls, inst, prev, gui, unit>>

NextHeap == HeapAnalyze \/ HeapStep

SpecHeap == Init /\ [][NextHeap]_vars

----------------------------------------------------------------------------
(* SpecGui: the window.  The handlers run on the main loop, one at a time;  *)
(* analyze_xml runs on a worker thread, its steps interleaved with them.    *)

Dialog(kind, title, message) == [kind |-> kind, title |-> title, message |-> message]

\* clear_results
clear_results(g) == [g EXCEPT !.views = <<>>]

\* open_file, the dialog having returned the path of file f
open_file(g, f) ==
    clear_results([g EXCEPT !.current_file = <<f>>, !.analyze_btn = "normal"])

\* a worker thread that has not run yet
NewThread ==
    [pc |-> "start", file |-> NoFile, calls |-> <<>>, outcome |-> NoResult,
     error_msg |-> None]

\* start_analysis
start_analysis(g) ==
    IF g.current_file = <<>>
    THEN [g EXCEPT !.messagebox =
              <<Dialog("error", "Error", "Please select an EA XML file first.")>>]
    ELSE [g EXCEPT !.analyze_btn = "disabled",
                   !.status_label = "Analyzing EA model...",
                   !.threads = Append(@, NewThread)]

\* analyze_xml, lines 839-840: a new analyzer is called with the file that
\* is current now
analyze_xml_call(g, i) ==
    [g EXCEPT !.threads[i].pc = "analyzing", !.threads[i].file = g.current_file[1]]

\* analyze_xml, lines 840 and 842-843: the call ends, fr being its frame;
\* its model is assigned to analysis_results, or its exception is caught and
\* turned into text
analyze_xml_return(g, i, fr) ==
    LET ended == [g EXCEPT !.threads[i].calls = fr.calls,
                           !.threads[i].outcome = fr.result]
    IN  IF fr.result.kind = "return"
        THEN [ended EXCEPT !.analysis_results = <<fr.result.value>>,
                           !.threads[i].pc = "returned"]
        ELSE [ended EXCEPT !.threads[i].error_msg = fr.result.msg,
                           !.threads[i].pc = "raised"]

\* an analyze_xml whose except clause queues no callback
analyze_xml_after_silent(g, i) ==
    LET t == g.threads[i]
        callback == [fn |-> "analysis_complete", error_msg |-> None, by |-> i]
    IN  IF t.pc = "returned"
        THEN [g EXCEPT !.after = Append(@, callback), !.threads[i].pc = "ended"]
        ELSE [g EXCEPT !.threads[i].pc = "ended"]

\* analyze_xml, lines 841 and 844: root.after(0, ...); `by` records the
\* thread that queued the callback
analyze_xml_after(g, i) ==
    LET t == g.threads[i]
        callback == IF t.pc = "returned"
                    THEN [fn |-> "analysis_complete", error_msg |-> None, by |-> i]
                    ELSE [fn |-> "analysis_error", error_msg |-> t.error_msg, by |-> i]
    IN  [g EXCEPT !.after = Append(@, callback), !.threads[i].pc = "ended"]

\* populate_results: nothing is shown while analysis_results is None
populate_results(g) ==
    IF g.analysis_results = <<>> THEN g ELSE [g EXCEPT !.views = g.analysis_results]

\* analysis_complete
analysis_complete(g) ==
    [populate_results([g EXCEPT !.status_label = "Analysis complete!",
                                !.analyze_btn = "normal",
                                !.generate_btn = "normal"])
        EXCEPT !.messagebox =
            <<Dialog("info", "Success", "EA model analysis completed successfully!")>>]

\* analysis_error
analysis_error(g, error_msg) ==
    [g EXCEPT !.status_label = "Analysis failed!",
              !.analyze_btn = "normal",
              !.messagebox =
                  <<Dialog("error", "Analysis Error",
                           "Failed to analyze EA XML file:\n\n" \o error_msg)>>]

\* the main loop runs the callback queued first
run_after(g) ==
    LET callback == Head(g.after)
        taken == [g EXCEPT !.after = Tail(@), !.ran = Append(@, callback)]
    IN  IF callback.fn = "analysis_complete" THEN analysis_complete(taken)
        ELSE analysis_error(taken, callback.error_msg)

\* export_json, the dialog having returned a path: the results are written
\* as they are at this moment
export_json(g) ==
    IF g.analysis_results = <<>>
    THEN [g EXCEPT !.messagebox =
              <<Dialog("warning", "Warning", "No analysis results to export.")>>]
    ELSE [g EXCEPT !.exported = g.analysis_results,
                   !.messagebox = <<Dialog("info", "Success", "Analysis exported to:\n")>>]

\* the files the user can pick: scenario A, a document the cleaning repairs,
\* and a file no strategy parses
GuiFiles ==
    { File(Document(<< Package({<<"Id", "P1">>, <<"Name", "Core">>}),
                       Node("Element", {<<"Id", "E1">>, <<"Name", "Order">>,
                                        <<"Type", "Class">>, <<"PackageID", "P1">>},
                            None, <<>>) >>), "none"),
      File(Document(<< Prefixed("uml", Package({<<"Id", "P4">>, <<"Name", "Uml">>})) >>),
           "none"),
      File(Document(<< Package({<<"Id", "P1">>, <<"Name", "Core">>}) >>), "syntax") }

Frozen == UNCHANGED <<self, pc, file, content, root, layout, e, calls, result, inst, prev, unit, heap>>

\* the user picks a file in the dialog of open_file
OpenFile ==
    /\ \E f \in GuiFiles : gui' = open_file(gui, f)
    /\ UNCHANGED ncalls
    /\ Frozen

\* the user presses the Analyze button, which is enabled
StartAnalysis ==
    /\ gui.analyze_btn = "normal"
    /\ ncalls < MaxCalls
    /\ gui' = start_analysis(gui)
    /\ ncalls' = ncalls + 1
    /\ Frozen

WorkerCall ==
    /\ \E i \in DOMAIN gui.threads :
          /\ gui.threads[i].pc = "start"
          /\ gui' = analyze_xml_call(gui, i)
    /\ UNCHANGED ncalls
    /\ Frozen

WorkerReturn ==
    /\ \E i \in DOMAIN gui.threads :
          /\ gui.threads[i].pc = "analyzing"
          /\ \E lay \in Layouts :
                \E fr \in {analyze_file(reset(<<>>), gui.threads[i].file, lay)} :
                    gui' = analyze_xml_return(gui, i, fr)
    /\ UNCHANGED ncalls
    /\ Frozen

WorkerAfter ==
    /\ \E i \in DOMAIN gui.threads :
          /\ gui.threads[i].pc \in {"returned", "raised"}
          /\ gui' = analyze_xml_after(gui, i)
    /\ UNCHANGED ncalls
    /\ Frozen

RunAfter ==
    /\ gui.after # <<>>
    /\ gui' = run_after(gui)
    /\ UNCHANGED ncalls
    /\ Frozen

\* the user picks File > Export Analysis, which is always enabled
ExportJson ==
    /\ gui' = export_json(gui)
    /\ UNCHANGED ncalls
    /\ Frozen

NextGui ==
    \/ OpenFile \/ StartAnalysis \/ ExportJson
    \/ WorkerCall \/ WorkerReturn \/ WorkerAfter \/ RunAfter

SpecGui == Init /\ [][NextGui]_vars

\* SpecGui with the scheduling the claims about progress assume: a started
\* thread gets to run, analyze_file comes back, and the main loop keeps
\* taking the callbacks queued with root.after
\* a thread that was inside analyze_file has left it: what a WorkerReturn
\* step, and no other step, does
WorkerLeaves ==
    \E i \in DOMAIN gui.threads :
        gui.threads[i].pc = "analyzing" /\ gui'.threads[i].pc # "analyzing"

\* analyze_file terminates: weak fairness of WorkerReturn, written out (the
\* step is possible exactly when some thread is inside analyze_file)
AnalyzeFileTerminates ==
    \/ []<>(\A i \in DOMAIN gui.threads : gui.threads[i].pc # "analyzing")
    \/ []<><<WorkerLeaves>>_vars

SpecGuiFair ==
    /\ Init /\ [][NextGui]_vars
    /\ WF_vars(WorkerCall) /\ AnalyzeFileTerminates /\ WF_vars(WorkerAfter)
    /\ WF_vars(RunAfter)

----------------------------------------------------------------------------
(* SpecUnit: a caller that calls one helper method of a new analyzer        *)
(* directly                                                                 *)

\* the characters the strings handed to _is_base64 are made of: two data
\* characters, the padding character and one outside base64_chars
TextChars == {"A", "Q", "=", "-"}

\* the strings of exactly n characters
RECURSIVE TextsOfLen(_)
TextsOfLen(n) ==
    IF n = 0 THEN {""}
    ELSE {str \o c : str \in TextsOfLen(n - 1), c \in TextChars}

Texts == UNION {TextsOfLen(n) : n \in 0..MaxText}

\* a direct call that returned `ret`
Called(fn, args, ret) == [fn |-> fn, args |-> args, ret |-> ret]

\* analyzer._is_base64(s)
Call_is_base64 ==
    /\ unit = NoCall
    /\ \E str \in Texts : unit' = Called("_is_base64", <<str>>, _is_base64(str))
    /\ UNCHANGED <<self, pc, file, content, root, layout, e, calls, result, ncalls, inst,
                   prev, gui, heap>>

\* the diagram nodes handed to the image detector: a payload beside a file
\* reference, each of them alone, neither, a payload named by its tag
\* beside a reference, and a text too short to be a payload beside one
UnitDiagrams ==
    { Node("Diagram", {<<"Id", "D1">>, <<"ImageFile", "a.png">>}, None,
           << Node("Image", {}, "QUJDRA==", <<>>) >>),
      Node("Diagram", {<<"Id", "D2">>}, None, << Node("Image", {}, "QUJDRA==", <<>>) >>),
      Node("Diagram", {<<"Id", "D3">>, <<"imagePath", "b.png">>}, None, <<>>),
      Node("Diagram", {<<"Id", "D4">>}, None, <<>>),
      Node("Diagram", {<<"Id", "D5">>, <<"ImagePath", "c.png">>}, None,
           << Node("png", {<<"data", " QUJD ">>}, None, <<>>) >>),
      Node("Diagram", {<<"Id", "D6">>, <<"imageFile", "d.png">>}, None,
           << Node("Image", {}, "abc", <<>>) >>) }

\* analyzer._extract_diagram_image_enhanced(diagram_elem, diag_info), with
\* the diag_info _extract_diagrams builds for the node; the outcome is the
\* diag_info afterwards and the exception that escaped
Call_extract_diagram_image_enhanced ==
    /\ unit = NoCall
    /\ \E d \in UnitDiagrams :
          LET tree == Document(<<d>>)
              diagram_elem == [node |-> d, path |-> <<1>>]
              diag_info == diagram_info(tree, 1, diagram_elem)
          IN  unit' = Called("_extract_diagram_image_enhanced",
                             <<tree, diagram_elem, diag_info>>,
                             _extract_diagram_image_enhanced(tree, diagram_elem, diag_info))
    /\ UNCHANGED <<self, pc, file, content, root, layout, e, calls, result, ncalls, inst,
                   prev, gui, heap>>

\* the nodes handed to the notes helper: a Notes child with text only, the
\* same beside a Documentation child, a Documentation child alone, the
\* attribute alone, nothing, a Notes child with a child node of its own, a
\* Notes child with text beside the attribute, one without text
UnitNotesNodes ==
    { Node("Class", {}, None, << Node("Notes", {}, "hello", <<>>) >>),
      Node("Class", {}, None, << Node("Notes", {}, "hello", <<>>),
                                 Node("Documentation", {}, "doc", <<>>) >>),
      Node("Class", {}, None, << Node("Documentation", {}, "doc", <<>>) >>),
      Node("Class", {<<"Notes", "attr">>}, None, <<>>),
      Node("Class", {}, None, <<>>),
      Node("Class", {}, None,
           << Node("Notes", {}, "hello", << Node("b", {}, None, <<>>) >>) >>),
      Node("Class", {<<"Notes", "attr">>}, None, << Node("Notes", {}, "hello", <<>>) >>),
      Node("Class", {<<"Notes", "attr">>}, None,
           << Node("Notes", {}, None, << Node("b", {}, None, <<>>) >>) >>) }

\* analyzer._extract_notes(element)
Call_extract_notes ==
    /\ unit = NoCall
    /\ \E n \in UnitNotesNodes :
          LET tree == Document(<<n>>)
              element == [node |-> n, path |-> <<1>>]
          IN  unit' = Called("_extract_notes", <<tree, element>>,
                             _extract_notes(tree, element))
    /\ UNCHANGED <<self, pc, file, content, root, layout, e, calls, result, ncalls, inst,
                   prev, gui, heap>>

\* the documents handed to the element extractor: an element with three
\* attribute matches and two operations, alone, before and after an element
\* without either
UnitElements ==
    << Node("Class", {<<"Id", "E1">>}, None,
            << Node("Attributes", {}, None, << Node("Attribute", {<<"Name", "a1">>},
                                                     None, <<>>) >>),
               Node("Attribute", {<<"Name", "a2">>}, None, <<>>),
               Node("Operation", {<<"Name", "o1">>}, None,
                    << Node("Parameter", {<<"Name", "p">>}, None, <<>>) >>),
               Node("Operation", {<<"Name", "o2">>}, None, <<>>) >>),
       Node("Class", {<<"Id", "E2">>}, None, <<>>) >>

UnitElementTrees ==
    { Document(<<UnitElements[1]>>), Document(UnitElements),
      Document(<<UnitElements[2], UnitElements[1]>>) }

\* the failures inside the sub-extractions of the k-th candidate
SubFaults ==
    {<<k, facet, j>> : k \in 1..MaxNodes, facet \in {"attributes", "operations"},
                       j \in 0..MaxNodes}

\* analyzer._extract_elements(root) on a new analyzer, in which a
\* sub-extraction may fail
Call_extract_elements ==
    /\ unit = NoCall
    /\ \E tree \in UnitElementTrees : \E fault \in {<<>>} \cup SubFaults :
          unit' = Called("_extract_elements", <<tree, fault>>,
                         _extract_elements(reset(<<>>), tree, 1, fault))
    /\ UNCHANGED <<self, pc, file, content, root, layout, e, calls, result, ncalls, inst,
                   prev, gui, heap>>

NextUnit ==
    \/ Call_is_base64 \/ Call_extract_diagram_image_enhanced \/ Call_extract_notes
    \/ Call_extract_elements

SpecUnit == Init /\ [][NextUnit]_vars

----------------------------------------------------------------------------
(* SpecView: the package hierarchy window.  show_package_hierarchy runs on  *)
(* the main loop over the results of a completed analysis; each call of     *)
(* _add_package_to_tree it makes is one step.                               *)

\* a list of root packages that takes every package as a root
every_package_a_root(packages) == [i \in DOMAIN packages |-> packages[i].k]

\* root_packages of show_package_hierarchy (line 1072), by id
root_packages(packages) ==
    LET roots == SelectSeq(packages, LAMBDA entry : ~Truthy(entry.v.parent_id))
    IN  [i \in DOMAIN roots |-> roots[i].k]

\* the calls of _add_package_to_tree a loop is still to make: the item to
\* insert under, and the package
PendingCalls(parent, ids) == [i \in DOMAIN ids |-> [parent |-> parent, id |-> ids[i]]]

\* show_package_hierarchy up to its loop: an empty Treeview (the items
\* inserted so far, each with its parent item, '' being 0) and the calls the
\* loop over root_packages is to make
show_package_hierarchy(packages) ==
    [tree |-> <<>>, pending |-> PendingCalls(0, root_packages(packages))]

\* _add_package_to_tree, the call pending first: tree.insert, then the loop
\* over the sub_packages that are keys of all_packages, whose calls come
\* before the ones pending in the callers
_add_package_to_tree(view, all_packages) ==
    LET call == Head(view.pending)
        package == Lookup(all_packages, call.id)
        item == Len(view.tree) + 1
        subs == SelectSeq(package.sub_packages, LAMBDA sub_pkg_id : Has(all_packages, sub_pkg_id))
    IN  [tree |-> Append(view.tree, [item |-> item, parent |-> call.parent, id |-> call.id,
                                     elements |-> Len(package.elements)]),
         pending |-> PendingCalls(item, subs) \o Tail(view.pending)]

\* the documents whose results the window shows
ViewItems ==
    Items
    \cup {Package({<<"Id", "P4">>, <<"Name", "Leaf">>, <<"ParentID", "P2">>}),
          Package({<<"Id", "P5">>, <<"Name", "Lost">>, <<"ParentID", "P3">>})}

\* a root with a child and a grandchild, beside a package that is its own
\* parent and has a child
NestedModel ==
    Document(<<Package({<<"Id", "P1">>, <<"Name", "Core">>}),
               Package({<<"Id", "P2">>, <<"Name", "Sub">>, <<"ParentID", "P1">>}),
               Package({<<"Id", "P4">>, <<"Name", "Leaf">>, <<"ParentID", "P2">>}),
               Package({<<"id", "P3">>, <<"owner", "P3">>}),
               Package({<<"Id", "P5">>, <<"Name", "Lost">>, <<"ParentID", "P3">>})>>)

ViewFiles ==
    {File(Document(items), "none") : items \in SeqsUpTo(ViewItems, MaxNodes)}
    \cup {File(NestedModel, "none")}

\* the user picks Tools > Package Hierarchy in a window whose analysis of
\* one of the files has completed
ShowPackageHierarchy ==
    /\ unit = NoCall
    /\ \E f \in ViewFiles : \E lay \in Layouts :
          \E fr \in {analyze_file(reset(<<>>), f, lay)} :
              /\ fr.result.kind = "return"
              /\ unit' = Called("show_package_hierarchy", <<fr.result.value.packages>>,
                                show_package_hierarchy(fr.result.value.packages))
    /\ UNCHANGED <<self, pc, file, content, root, layout, e, calls, result, ncalls, inst,
                   prev, gui, heap>>

\* the next call of _add_package_to_tree; a Treeview that already holds more
\* items than there are packages is not followed further
AddPackageToTree ==
    /\ unit # NoCall
    /\ unit.fn = "show_package_hierarchy"
    /\ unit.ret.pending # <<>>
    /\ Len(unit.ret.tree) <= Len(unit.args[1])
    /\ unit' = [unit EXCEPT !.ret = _add_package_to_tree(unit.ret, unit.args[1])]
    /\ UNCHANGED <<self, pc, file, content, root, layout, e, calls, result, ncalls, inst,
                   prev, gui, heap>>

NextView == ShowPackageHierarchy \/ AddPackageToTree

SpecView == Init /\ [][NextView]_vars

----------------------------------------------------------------------------
(* Claims about one analyze_file call *)

\* the call has ended by returning a model
HasReturned == pc = "done" /\ result.kind = "return"

\* the nodes of the parsed tree a search from the root can select
BelowRoot == Below(root[1], <<>>)

ScenarioA ==
    File(Document(<< Package({<<"Id", "P1">>, <<"Name", "Core">>}),
                     Node("Element", {<<"Id", "E1">>, <<"Name", "Order">>, <<"Type", "Class">>,
                                      <<"PackageID", "P1">>}, None, <<>>) >>), "none")

\* C1: analyze_file on the document of scenario A (one Package P1 "Core", one
\* Element E1 "Order" of Type Class in PackageID P1) returns a model with
\* total_packages 1, total_elements 1, package P1 with members [E1] and
\* element_types Class -> 1.
C1_ScenarioA ==
    (HasReturned /\ file = ScenarioA) =>
        LET m == result.value
        IN  /\ m.stats.total_packages = 1
            /\ m.stats.total_elements = 1
            /\ Has(m.packages, "P1")
            /\ Lookup(m.packages, "P1").elements = <<"E1">>
            /\ Has(m.stats.element_types, "Class")
            /\ Lookup(m.stats.element_types, "Class") = 1

CallNames == [i \in DOMAIN calls |-> calls[i].name]

\* position i of the trace is a parse attempt
IsParse(i) == calls[i].name \in {"ET.parse", "ET.fromstring"}

\* C2: the parse strategies run in order, each only after the one before it
\* raised a parse error: the string reparse only after the strict parse of the
\* file failed, the cleaning only after both failed, and nothing after a
\* strict parse that succeeded.
C2_StrategiesInOrder ==
    /\ \A i \in DOMAIN calls :
          calls[i].name = "ET.fromstring" =>
              /\ ~ET_parse(file).ok
              /\ \E j \in 1..(i - 1) : calls[j].name = "ET.parse" /\ calls[j].exc # None
    /\ \A i \in DOMAIN calls :
          calls[i].name = "_clean_xml_content" =>
              /\ ~ET_parse(file).ok
              /\ ~ET_fromstring(content[1]).ok
              /\ \E j \in 1..(i - 1) : \E k \in (j + 1)..(i - 1) :
                    /\ calls[j].name = "ET.parse" /\ calls[j].exc # None
                    /\ calls[k].name = "ET.fromstring" /\ calls[k].exc # None
    /\ \A i \in DOMAIN calls :
          (IsParse(i) /\ calls[i].exc = None) => \A j \in (i + 1)..Len(calls) : ~IsParse(j)
    /\ Cardinality({i \in DOMAIN calls : calls[i].name = "ET.parse"}) <= 1
    /\ Cardinality({i \in DOMAIN calls : calls[i].name = "_clean_xml_content"}) <= 1

\* C2's case: a file whose first two parses failed and whose cleaned text parsed
C2_Witness ==
    /\ HasReturned
    /\ \E i \in DOMAIN calls : calls[i].name = "_clean_xml_content"

\* C5: after assembly, whenever package P1's parent_id is package P2's id,
\* P2.sub_packages holds P1's id exactly once, whatever the order in which the
\* packages were extracted.
C5_LinkBack ==
    HasReturned =>
        LET pkgs == result.value.packages
        IN  \A i, j \in DOMAIN pkgs :
                pkgs[i].v.parent_id = pkgs[j].v.id =>
                    Count(pkgs[j].v.sub_packages, pkgs[i].v.id) = 1

\* C5's case: a child extracted before its parent and one extracted after it
C5_Witness ==
    /\ HasReturned
    /\ LET pkgs == result.value.packages
       IN  \E i, j \in DOMAIN pkgs :
               /\ i < j
               /\ pkgs[i].v.parent_id = pkgs[j].v.id
               /\ pkgs[j].v.parent_id = pkgs[i].v.id

\* the id _extract_elements gives the element node at an entry
ElementId(x) ==
    Or(get(x.node, "Id"), Or(get(x.node, "id"), Or(get(x.node, "xmi.id"),
       str_id(root[1], layout, x.path))))

\* C6: after assembly, element id E is in package P's member list exactly
\* when E's package_id is P's id, and then once; an element whose package_id
\* is unset or names no package is in no member list and still in elements.
C6_Membership ==
    HasReturned =>
        LET m == result.value
            it == Iter(root[1])
        IN  /\ \A i \in DOMAIN m.packages : \A j \in DOMAIN m.elements :
                  Count(m.packages[i].v.elements, m.elements[j].k) =
                      IF m.elements[j].v.package_id = m.packages[i].k THEN 1 ELSE 0
            /\ \A i \in DOMAIN m.packages : \A k \in DOMAIN m.packages[i].v.elements :
                  Has(m.elements, m.packages[i].v.elements[k])
            /\ \A i \in DOMAIN it :
                  element_candidate(it[i].node) => Has(m.elements, ElementId(it[i]))

\* C6's case: one element listed by its package beside one whose package_id
\* names no package
C6_Witness ==
    /\ HasReturned
    /\ LET m == result.value
       IN  \E i, j \in DOMAIN m.elements :
               /\ Truthy(m.elements[i].v.package_id)
               /\ ~Has(m.packages, m.elements[i].v.package_id)
               /\ Has(m.packages, m.elements[j].v.package_id)

ScenarioC ==
    File(Document(<< Node("Diagram", {<<"Id", "D1">>, <<"Name", "Overview">>,
                                      <<"Type", "Logical">>}, None,
                          << Node("Image", {}, "QUJDRA==", <<>>) >>),
                     Node("Diagram", {<<"Id", "D2">>}, None, <<>>) >>), "none")

\* C7: a diagram node with a nested Image whose text is valid base64 yields a
\* diagram entry with has_image true and the format of the payload tag; a
\* diagram node with no payload yields an entry with has_image false and
\* image_data null; both diagrams are in the diagrams collection.
C7_ScenarioC ==
    (HasReturned /\ file = ScenarioC) =>
        LET m == result.value
        IN  /\ Has(m.diagrams, "D1")
            /\ Lookup(m.diagrams, "D1").has_image
            /\ Lookup(m.diagrams, "D1").image_format = _detect_image_format("Image")
            /\ Has(m.diagrams, "D2")
            /\ ~Lookup(m.diagrams, "D2").has_image
            /\ Lookup(m.diagrams, "D2").image_data = None

\* the connector nodes _extract_connectors can find
ConnectorNodes == SelectSeq(BelowRoot, LAMBDA x : x.node.tag = "Connector")

ConnectorId(x) == Or(get(x.node, "Id"), get(x.node, "id"))

\* C8: every connector node yields a connector entry under its id, with the
\* source_id and target_id of the (last) node of that id, whether or not
\* these name an element of the model; the call returns a model.
C8_DanglingConnector ==
    (pc = "done" /\ root # <<>>) =>
        /\ result.kind = "return"
        /\ LET m == result.value
               cs == ConnectorNodes
           IN  \A i \in DOMAIN cs :
                   /\ Has(m.connectors, ConnectorId(cs[i]))
                   /\ (\A j \in (i + 1)..Len(cs) : ConnectorId(cs[j]) # ConnectorId(cs[i])) =>
                         LET c == Lookup(m.connectors, ConnectorId(cs[i]))
                         IN  /\ c.source_id = Or(get(cs[i].node, "SourceID"),
                                                 get(cs[i].node, "source"))
                             /\ c.target_id = Or(get(cs[i].node, "TargetID"),
                                                 get(cs[i].node, "target"))

\* C8's case: scenario B, connector C1 from E1 to an E2 that is no element
C8_Witness ==
    /\ HasReturned
    /\ LET m == result.value
       IN  /\ Has(m.connectors, "C1")
           /\ Lookup(m.connectors, "C1").target_id = "E2"
           /\ Lookup(m.connectors, "C1").source_id = "E1"
           /\ Has(m.elements, "E1")
           /\ ~Has(m.elements, "E2")

\* the extractors and the assembler, in the order of lines 67-98
Pipeline ==
    << "_extract_model_info", "_extract_packages", "_extract_elements",
       "_extract_diagrams", "_extract_connectors", "_extract_tagged_values",
       "_calculate_stats" >>

\* the calls of the trace to an extractor or to the assembler
PipelineCalls ==
    SelectSeq(calls, LAMBDA c : \E i \in DOMAIN Pipeline : c.name = Pipeline[i])

\* C4: once a tree is parsed, whichever extractors raise, the six extractors
\* are invoked once each in the fixed order, _calculate_stats runs after
\* them, and analyze_file returns a model.
C4_FaultIsolation ==
    /\ Len(PipelineCalls) <= Len(Pipeline)
    /\ \A i \in DOMAIN PipelineCalls : PipelineCalls[i].name = Pipeline[i]
    /\ (pc = "done" /\ root # <<>>) =>
           /\ Len(PipelineCalls) = Len(Pipeline)
           /\ result.kind = "return"

\* C4's case: a call that returned although the diagram, the connector and
\* the tagged-value extractor raised, the last two part way through
C4_Witness ==
    /\ HasReturned
    /\ \A n \in {"_extract_diagrams", "_extract_connectors", "_extract_tagged_values"} :
           \E i \in DOMAIN calls : calls[i].name = n /\ calls[i].exc # None
    /\ result.value.stats.total_connectors = 1
    /\ Len(ConnectorNodes) = 2

\* the TaggedValue nodes of the parsed tree and what they say
TaggedValueNodes == SelectSeq(Iter(root[1]), LAMBDA x : x.node.tag = "TaggedValue")

OwnerOf(x) == Or(get(x.node, "ElementID"), get(x.node, "element"))

Describes(x, tag_info) ==
    /\ tag_info.name = Or(get(x.node, "Name"), get(x.node, "name"))
    /\ tag_info.value = Or(get(x.node, "Value"), Or(get(x.node, "value"), x.node.text))

\* C12: after assembly, an element whose id is a key of the tagged-value
\* index has the indexed list as its tagged_values and every other element
\* has the empty list; every indexed tagged value comes from a node that
\* names the key as its owner, so one that names no owner is in no entry
\* and in no element
C12_TaggedValueAttachment ==
    HasReturned =>
        LET m == result.value
            tvs == TaggedValueNodes
        IN  /\ \A j \in DOMAIN m.elements :
                  m.elements[j].v.tagged_values =
                      IF Has(m.tagged_values, m.elements[j].k)
                      THEN Lookup(m.tagged_values, m.elements[j].k)
                      ELSE <<>>
            /\ \A i \in DOMAIN m.tagged_values :
                  /\ m.tagged_values[i].v # <<>>
                  /\ \A k \in DOMAIN m.tagged_values[i].v :
                        \E t \in DOMAIN tvs :
                            /\ Truthy(OwnerOf(tvs[t]))
                            /\ OwnerOf(tvs[t]) = m.tagged_values[i].k
                            /\ Describes(tvs[t], m.tagged_values[i].v[k])

\* C12's case: an element that got a list of two tagged values while a
\* tagged value inside it, which names no owner, was left out
C12_Witness ==
    /\ HasReturned
    /\ \E t \in DOMAIN TaggedValueNodes : ~Truthy(OwnerOf(TaggedValueNodes[t]))
    /\ \E j \in DOMAIN result.value.elements :
           Len(result.value.elements[j].v.tagged_values) = 2

\* the id attribute a package or element node carries, None when it has none
ExplicitId(x) == Or(get(x.node, "Id"), Or(get(x.node, "id"), get(x.node, "xmi.id")))

\* the entries of a collection stored under a key that no node of `nodes`
\* carries as its id attribute (IdOf), against the nodes that carry none
SynthesizedEntries(collection, nodes, IdOf(_)) ==
    {i \in DOMAIN collection :
        \A j \in DOMAIN nodes : IdOf(nodes[j]) # collection[i].k}

NodesWithoutId(nodes, IdOf(_)) == {j \in DOMAIN nodes : ~Truthy(IdOf(nodes[j]))}

\* C14: every entity stored in packages, elements, diagrams and connectors
\* has an id that is a string, not None, and source nodes without an id
\* attribute are stored as separate entries, one for each node, connectors
\* as well as packages and elements
C14_Identifiers ==
    HasReturned =>
        LET m == result.value
            entries == m.packages \o m.elements \o m.diagrams \o m.connectors
            pkgs == SelectSeq(Iter(root[1]), LAMBDA x : package_candidate(x.node))
            elems == SelectSeq(Iter(root[1]), LAMBDA x : element_candidate(x.node))
            conns == ConnectorNodes
        IN  /\ \A i \in DOMAIN entries :
                  entries[i].k # None /\ entries[i].v.id # None
            /\ Cardinality(SynthesizedEntries(m.packages, pkgs, ExplicitId))
                   = Cardinality(NodesWithoutId(pkgs, ExplicitId))
            /\ Cardinality(SynthesizedEntries(m.elements, elems, ExplicitId))
                   = Cardinality(NodesWithoutId(elems, ExplicitId))
            /\ Cardinality(SynthesizedEntries(m.connectors, conns, ConnectorId))
                   = Cardinality(NodesWithoutId(conns, ConnectorId))

\* C14 for packages and elements alone, which the code satisfies
C14_PackagesAndElements ==
    HasReturned =>
        LET m == result.value
            entries == m.packages \o m.elements
            pkgs == SelectSeq(Iter(root[1]), LAMBDA x : package_candidate(x.node))
            elems == SelectSeq(Iter(root[1]), LAMBDA x : element_candidate(x.node))
        IN  /\ \A i \in DOMAIN entries :
                  entries[i].k # None /\ entries[i].v.id # None
            /\ Cardinality(SynthesizedEntries(m.packages, pkgs, ExplicitId))
                   = Cardinality(NodesWithoutId(pkgs, ExplicitId))
            /\ Cardinality(SynthesizedEntries(m.elements, elems, ExplicitId))
                   = Cardinality(NodesWithoutId(elems, ExplicitId))

\* the entry an extractor records for one source node: what one iteration
\* of its loop stores
RecordedPackage(x) == add_package(root[1], layout, reset(<<>>), x).packages[1]

RecordedElement(x) == add_element(root[1], layout, reset(<<>>), x).elements[1]

RecordedConnector(x) == add_connector(root[1], reset(<<>>), x).connectors[1]

\* the collection still holds the recorded entry: the same entity under the
\* same id, but for the fields the assembler fills in afterwards
StillPresent(collection, recorded, assembled) ==
    /\ Has(collection, recorded.k)
    /\ \A f \in DOMAIN recorded.v \ assembled :
           Lookup(collection, recorded.k)[f] = recorded.v[f]

\* C15: every entity an extractor has recorded during a run is present in the
\* returned model; no later step of the run removes it or puts a different
\* entity in its place, also when two source nodes carry the same id
C15_NoDeletion ==
    HasReturned =>
        LET m == result.value
            pkgs == SelectSeq(Iter(root[1]), LAMBDA x : package_candidate(x.node))
            elems == SelectSeq(Iter(root[1]), LAMBDA x : element_candidate(x.node))
            conns == ConnectorNodes
        IN  /\ \A i \in DOMAIN pkgs :
                  StillPresent(m.packages, RecordedPackage(pkgs[i]),
                               {"elements", "sub_packages"})
            /\ \A i \in DOMAIN elems :
                  StillPresent(m.elements, RecordedElement(elems[i]), {"tagged_values"})
            /\ \A i \in DOMAIN conns :
                  StillPresent(m.connectors, RecordedConnector(conns[i]), {})

\* the ids the candidate nodes of the tree are recorded under, one for each
\* node
RecordedIds ==
    LET pkgs == SelectSeq(Iter(root[1]), LAMBDA x : package_candidate(x.node))
        elems == SelectSeq(Iter(root[1]), LAMBDA x : element_candidate(x.node))
        conns == ConnectorNodes
    IN  [i \in DOMAIN pkgs |-> <<"package", RecordedPackage(pkgs[i]).k>>]
        \o [i \in DOMAIN elems |-> <<"element", RecordedElement(elems[i]).k>>]
        \o [i \in DOMAIN conns |-> <<"connector", RecordedConnector(conns[i]).k>>]

\* C15 for the documents in which no two nodes are recorded under one id,
\* which the code satisfies
C15_NoDeletionOfDistinctIds ==
    (HasReturned /\ \A i, j \in DOMAIN RecordedIds : RecordedIds[i] = RecordedIds[j] => i = j)
        => C15_NoDeletion

\* C16: in every returned model each of total_packages, total_elements,
\* total_diagrams and total_connectors is the number of entries of its
\* collection, also when a node is matched by two searches or ids repeat
C16_StatisticsTotals ==
    HasReturned =>
        LET m == result.value
        IN  /\ m.stats.total_packages = Len(m.packages)
            /\ m.stats.total_elements = Len(m.elements)
            /\ m.stats.total_diagrams = Len(m.diagrams)
            /\ m.stats.total_connectors = Len(m.connectors)

\* C16 for the documents in which no two nodes are recorded under one id and
\* no Connector node stands directly in a Connectors node, which the code
\* satisfies
C16_TotalsWithoutRepeats ==
    (/\ HasReturned
     /\ \A i, j \in DOMAIN RecordedIds : RecordedIds[i] = RecordedIds[j] => i = j
     /\ \A i \in DOMAIN ConnectorNodes :
            NodeAt(root[1], Front(ConnectorNodes[i].path)).tag # "Connectors")
        => C16_StatisticsTotals

\* the role a role node describes
RoleOf(x) ==
    [ name |-> Or(get(x.node, "Name"), get(x.node, "name")),
      multiplicity |-> get(x.node, "Multiplicity"),
      visibility |-> get(x.node, "Visibility") ]

\* the role of a connector node: that of its nested node with the specific
\* tag if it has one, else that of its nested node with the generic tag,
\* else None
RoleUnder(x, specific, generic) ==
    LET role == SelectSeq(Below(x.node, x.path), LAMBDA y : y.node.tag = specific)
        fallback == SelectSeq(Below(x.node, x.path), LAMBDA y : y.node.tag = generic)
    IN  IF role # <<>> THEN <<RoleOf(role[1])>>
        ELSE IF fallback # <<>> THEN <<RoleOf(fallback[1])>>
        ELSE <<>>

\* C19: every connector's source_role is populated from its nested
\* SourceRole node if it has one, with or without child nodes, else from
\* its nested Source node, else it is None; likewise target_role from
\* TargetRole and Target
C19_ConnectorRoles ==
    HasReturned =>
        LET m == result.value
            cs == ConnectorNodes
        IN  \A i \in DOMAIN cs :
                /\ Has(m.connectors, ConnectorId(cs[i]))
                /\ Lookup(m.connectors, ConnectorId(cs[i])).source_role
                       = RoleUnder(cs[i], "SourceRole", "Source")
                /\ Lookup(m.connectors, ConnectorId(cs[i])).target_role
                       = RoleUnder(cs[i], "TargetRole", "Target")

\* C19 for the connectors whose SourceRole and TargetRole nodes, if any, have
\* child nodes, which the code satisfies
C19_RolesWithChildren ==
    (/\ HasReturned
     /\ \A i \in DOMAIN BelowRoot :
            BelowRoot[i].node.tag \in {"SourceRole", "TargetRole"}
                => BelowRoot[i].node.kids # <<>>)
        => C19_ConnectorRoles

\* C21: after assembly a package's sub_packages list holds only ids of other
\* packages whose parent_id is that package's id; a package whose parent_id
\* is its own id is not in its own list
C21_NoSelfLink ==
    HasReturned =>
        LET pkgs == result.value.packages
        IN  \A i \in DOMAIN pkgs : \A k \in DOMAIN pkgs[i].v.sub_packages :
                LET sub == pkgs[i].v.sub_packages[k]
                IN  /\ sub # pkgs[i].k
                    /\ Has(pkgs, sub)
                    /\ Lookup(pkgs, sub).parent_id = pkgs[i].k

\* C21 but for the self-link, which the code satisfies: every listed id is
\* that of a package whose parent_id is the listing package's id
C21_OnlyChildrenListed ==
    HasReturned =>
        LET pkgs == result.value.packages
        IN  \A i \in DOMAIN pkgs : \A k \in DOMAIN pkgs[i].v.sub_packages :
                /\ Has(pkgs, pkgs[i].v.sub_packages[k])
                /\ Lookup(pkgs, pkgs[i].v.sub_packages[k]).parent_id = pkgs[i].k

----------------------------------------------------------------------------
(* Claims about sequences of calls *)

\* C10: whatever calls were made before on the instance, the call that ended
\* last gives the result a new instance gives for its file: nothing of an
\* earlier call, successful or failed, is in it.
C10_Stateless ==
    pc = "done" => result = analyze_file(reset(<<>>), file, layout).result

\* C10's case: a call on an instance whose call before returned a model with
\* packages and elements of another file
C10_Witness ==
    /\ pc = "done"
    /\ inst.calls = 2
    /\ prev # <<>>
    /\ prev[1].inst.id = inst.id
    /\ prev[1].file # file
    /\ prev[1].result.kind = "return"
    /\ prev[1].result.value.stats.total_packages > 0
    /\ prev[1].result.value.stats.total_elements > 0
    /\ result.kind = "return"

\* the identifier with a synthesized id replaced by the document position of
\* the (first) node it was synthesized from
Stable(tree, lay, id) ==
    LET it == Iter(tree)
        from == {i \in DOMAIN it : str_id(tree, lay, it[i].path) = id}
    IN  IF from = {} THEN id
        ELSE "#" \o ToString(CHOOSE i \in from : \A j \in from : i <= j)

\* a collection with its keys and id fields made stable
StableEntries(tree, lay, d) ==
    [i \in DOMAIN d |->
        [k |-> Stable(tree, lay, d[i].k),
         v |-> [d[i].v EXCEPT !.id = Stable(tree, lay, @)]]]

\* a result with every field derived from a synthesized id made stable
StableResult(call) ==
    IF call.result.kind # "return" THEN call.result
    ELSE LET m == call.result.value
             tree == call.root[1]
             lay == call.layout
             ids(list) == [i \in DOMAIN list |-> Stable(tree, lay, list[i])]
             pkgs == StableEntries(tree, lay, m.packages)
         IN  Returned([m EXCEPT
                 !.packages = [i \in DOMAIN pkgs |->
                                  [pkgs[i] EXCEPT !.v.sub_packages = ids(@),
                                                  !.v.elements = ids(@)]],
                 !.elements = StableEntries(tree, lay, m.elements),
                 !.diagrams = StableEntries(tree, lay, m.diagrams)])

\* the call that ended last
Last == [file |-> file, inst |-> inst, root |-> root, layout |-> layout,
         result |-> result]

\* the two calls that ended last were the first calls on two instances, on
\* the same file
TwoFreshRuns ==
    /\ pc = "done"
    /\ prev # <<>>
    /\ prev[1].file = file
    /\ prev[1].inst.id # inst.id
    /\ prev[1].inst.calls = 1
    /\ inst.calls = 1

C28_EarlierResultsKept ==
    \A k \in DOMAIN heap.results :
        Deref(heap, heap.results[k].keys) = heap.results[k].returned

\* C28's case: after a call that returned a model with packages, a second
\* call on the instance has ended, returning another model or raising
C28_Witness ==
    /\ pc = "done"
    /\ inst.calls = 2
    /\ heap.results # <<>>
    /\ heap.results[1].returned.packages # <<>>
    /\ \/ result.kind = "raise" /\ Len(heap.results) = 1
       \/ /\ Len(heap.results) = 2
          /\ heap.results[2].returned.packages # heap.results[1].returned.packages

\* the second call has raised, after a first that returned a model
C28_LaterCallFailed ==
    /\ pc = "done" /\ result.kind = "raise"
    /\ inst.calls = 2
    /\ Len(heap.results) = 1
    /\ heap.results[1].returned.packages # <<>>

\* a returned dictionary shares the objects of six fields with the instance
C28_SharedObjects ==
    /\ heap.results # <<>>
    /\ pc = "done"
    /\ heap.results[Len(heap.results)].keys.packages = heap.self.packages

----------------------------------------------------------------------------
(* Claims about the window *)

\* none of the three parse strategies accepts the file
AllParsesFail(f) ==
    LET text == _read_file_with_encoding(f)
    IN  /\ ~ET_parse(f).ok
        /\ ~ET_fromstring(text).ok
        /\ ~ET_fromstring(_clean_xml_content(text)).ok

\* the callbacks thread i has queued, run or not yet
QueuedBy(i) == SelectSeq(gui.ran \o gui.after, LAMBDA c : c.by = i)

\* thread i has come back from analyze_file
Analysed(i) == gui.threads[i].pc \in {"returned", "raised", "ended"}

\* C3: on a file that fails the strict parse, the string reparse and the
\* reparse of the cleaned text, analyze_file raises one ValueError 'Invalid
\* XML format: ' with the message of the strict parse, having run no
\* extractor and no assembler and returning no model; the worker catches it
\* and queues analysis_error with that message, and nothing else.
C3_ScenarioD ==
    /\ \A i \in DOMAIN gui.threads :
          (Analysed(i) /\ AllParsesFail(gui.threads[i].file)) =>
              LET t == gui.threads[i]
                  msg == "Invalid XML format: " \o ET_parse(t.file).msg
              IN  /\ t.outcome = Raised("ValueError", msg)
                  /\ \A j \in DOMAIN t.calls :
                        \A k \in DOMAIN Pipeline : t.calls[j].name # Pipeline[k]
                  /\ t.pc \in {"raised", "ended"}
                  /\ t.pc = "raised" => QueuedBy(i) = <<>>
                  /\ t.pc = "ended" =>
                        QueuedBy(i) = <<[fn |-> "analysis_error", error_msg |-> msg, by |-> i]>>
    /\ (\A i \in DOMAIN gui.threads : Analysed(i) => AllParsesFail(gui.threads[i].file))
           => gui.analysis_results = <<>>

\* C3's case: the main loop has run analysis_error for a file that no
\* strategy parses, and the window shows the failure
C3_Witness ==
    \E i \in DOMAIN gui.threads :
        /\ gui.threads[i].pc = "ended"
        /\ AllParsesFail(gui.threads[i].file)
        /\ \E j \in DOMAIN gui.ran : gui.ran[j].by = i
        /\ gui.status_label = "Analysis failed!"
        /\ gui.messagebox # <<>>
        /\ gui.messagebox[1].title = "Analysis Error"
        /\ gui.analyze_btn = "normal"

\* the step runs the completion callback on the main loop
CompletionRuns ==
    /\ gui.after # <<>>
    /\ Head(gui.after).fn = "analysis_complete"
    /\ gui' = run_after(gui)

\* C13: the result the handlers of the window read (analysis_results) changes
\* only in a step in which the main loop runs the completion callback, never
\* in a step of the worker thread
C13_WorkerHandOff ==
    [][gui'.analysis_results # gui.analysis_results => CompletionRuns]_vars

\* export_json has written a result while the analysis that produced it has
\* not yet announced it: its completion callback is still to be queued
C13_ExportedEarly ==
    /\ gui.exported # <<>>
    /\ gui.ran = <<>> /\ gui.after = <<>>
    /\ gui.status_label = "Analyzing EA model..."

\* the callback of thread i has not run yet: its analysis is in flight
InFlight(i) == \A k \in DOMAIN gui.ran : gui.ran[k].by # i

\* C23: at most one analysis is in flight: no worker thread is started
\* before the callback of every earlier one has run
C23_SingleAnalysisInFlight ==
    Cardinality({i \in DOMAIN gui.threads : InFlight(i)}) <= 1

\* two worker threads are inside analyze_file at the same time
C23_TwoWorkersRunning ==
    \E i, j \in DOMAIN gui.threads :
        i # j /\ gui.threads[i].pc = "analyzing" /\ gui.threads[j].pc = "analyzing"

\* model was returned by an analysis of the file that is current now
ProducedFromCurrentFile(model) ==
    /\ gui.current_file # <<>>
    /\ \E i \in DOMAIN gui.threads :
          /\ Analysed(i)
          /\ gui.threads[i].file = gui.current_file[1]
          /\ gui.threads[i].outcome = Returned(model)

\* C24: whenever analysis_results is not None, it was produced by analysing
\* the file stored in current_file
C24_ResultsMatchSelectedFile ==
    gui.analysis_results # <<>> => ProducedFromCurrentFile(gui.analysis_results[1])

\* export_json has written the results of a file while another file is
\* selected, of which no analysis has returned
C24_StaleExport ==
    /\ gui.exported # <<>>
    /\ gui.exported = gui.analysis_results
    /\ ~ProducedFromCurrentFile(gui.exported[1])
    /\ \A i \in DOMAIN gui.threads : ~InFlight(i)

\* the callbacks of thread i that the main loop has run
RanFor(i) == SelectSeq(gui.ran, LAMBDA c : c.by = i)

\* the callback that belongs to the way thread i left analyze_file
CallbackOf(i) ==
    IF gui.threads[i].outcome.kind = "return" THEN "analysis_complete" ELSE "analysis_error"

\* C25: under fair scheduling every thread start_analysis has started is
\* eventually followed by one run of its callback (a thread stays started
\* and a callback that has run stays run, so "again and again: not started
\* or run once" is "started leads to run once"); a thread never queues more
\* than one callback, and the one it queues is analysis_complete when
\* analyze_file returned and analysis_error when it raised; the step that
\* runs a callback leaves the Analyze button enabled
C25_AnalysisReportsBack ==
    /\ \A i \in 1..MaxCalls : []<>(i \in DOMAIN gui.threads => Len(RanFor(i)) = 1)
    /\ [](\A i \in DOMAIN gui.threads :
             /\ Len(QueuedBy(i)) <= 1
             /\ \A k \in DOMAIN QueuedBy(i) : QueuedBy(i)[k].fn = CallbackOf(i))
    /\ [][gui'.ran # gui.ran => gui'.analyze_btn = "normal"]_vars

\* C25's case: two analyses were started, one returned and one raised, and
\* each has had its one callback run
C25_Witness ==
    /\ Len(gui.threads) = 2
    /\ Len(RanFor(1)) = 1 /\ Len(RanFor(2)) = 1
    /\ RanFor(1)[1].fn # RanFor(2)[1].fn
    /\ gui.analyze_btn = "normal"

----------------------------------------------------------------------------
(* Claims about helper methods called directly *)

\* strict base64 (RFC 4648, section 4): whole quads of alphabet characters,
\* of which only the last one or two of the string may be the padding "="
StrictBase64(str) ==
    LET n == Len(str)
    IN  /\ n % 4 = 0
        /\ \A i \in 1..n : Char(str, i) \in base64_chars
        /\ \A i \in 1..n : Char(str, i) = "=" => i \in {n - 1, n}
        /\ n > 0 /\ Char(str, n - 1) = "=" => Char(str, n) = "="

OutsideAlphabet(str) == \E i \in 1..Len(str) : Char(str, i) \notin base64_chars

IsBase64Call == unit # NoCall /\ unit.fn = "_is_base64"

\* C11: _is_base64 answers True for every string of length >= 4 made only of
\* base64-alphabet characters that is strict base64, and False for every
\* string with a character outside the alphabet, whatever its length
C11_Base64Classification ==
    IsBase64Call =>
        LET str == unit.args[1]
        IN  /\ (Len(str) >= 4 /\ ~OutsideAlphabet(str) /\ StrictBase64(str)) => unit.ret = TRUE
            /\ OutsideAlphabet(str) => unit.ret = FALSE

\* a padded string of four alphabet characters was accepted
C11_Witness == IsBase64Call /\ unit.args[1] = "AQ==" /\ unit.ret = TRUE

\* the payloads the searches of the image detector that can be made find
\* under a diagram node, in the order of the list, None where nothing is found
\* or the node found is not classified
ChildPayloads(tree, diagram_elem) ==
    LET paths == SelectSeq(image_source_paths, LAMBDA p : ~PathRaises(p))
        found == [i \in DOMAIN paths |-> find(tree, diagram_elem, paths[i])]
    IN  [i \in DOMAIN paths |->
            IF found[i] = NoElement THEN <<>> ELSE classify_payload(found[i][1])]

FileReferences(diagram_elem) ==
    SelectSeq(<< get(diagram_elem.node, "ImageFile"), get(diagram_elem.node, "imageFile"),
                 get(diagram_elem.node, "ImagePath"), get(diagram_elem.node, "imagePath") >>,
              Truthy)

IsImageCall == unit # NoCall /\ unit.fn = "_extract_diagram_image_enhanced"

\* C17: when a child payload of the diagram was classified, image_data and
\* image_format are those of the first classified payload, also when a
\* file-reference attribute is present; a file-reference attribute decides
\* only when no child payload was classified
C17_CascadePrecedence ==
    IsImageCall =>
        LET payloads == SelectSeq(ChildPayloads(unit.args[1], unit.args[2]),
                                  LAMBDA c : c # <<>>)
            refs == FileReferences(unit.args[2])
            info == unit.ret.info
        IN  IF payloads # <<>>
            THEN /\ info.has_image
                 /\ info.image_data = payloads[1][1].image_data
                 /\ info.image_format = payloads[1][1].image_format
            ELSE refs # <<>> =>
                 /\ info.has_image
                 /\ info.image_data = refs[1]
                 /\ info.image_format = "file_reference"

\* C17 for the two loops of the detector alone (the lines after the list of
\* searches is built), had the searches been made: the payload does not keep
\* its precedence over a file reference there either
C17_CascadeLoops ==
    \A d \in UnitDiagrams :
        LET tree == Document(<<d>>)
            diagram_elem == [node |-> d, path |-> <<1>>]
            payloads == SelectSeq(ChildPayloads(tree, diagram_elem), LAMBDA c : c # <<>>)
            info == image_cascade(tree, diagram_elem, diagram_info(tree, 1, diagram_elem))
        IN  payloads # <<>> =>
                /\ info.image_data = payloads[1][1].image_data
                /\ info.image_format = payloads[1][1].image_format

\* the nodes with the tag below the node at path p, in document order
Nested(tree, p, tag) ==
    SelectSeq(Below(NodeAt(tree, p), p), LAMBDA x : x.node.tag = tag /\ x.node.pfx = "")

IsNotesCall == unit # NoCall /\ unit.fn = "_extract_notes"

\* C18: _extract_notes returns the text of a nested Notes child if there is
\* one, with or without child nodes of its own, else the text of a nested
\* Documentation child if there is one, else the node's Notes attribute,
\* else the empty string
C18_NotesHelper ==
    IsNotesCall =>
        LET tree == unit.args[1]
            element == unit.args[2]
            notes == Nested(tree, element.path, "Notes")
            documentation == Nested(tree, element.path, "Documentation")
        IN  unit.ret =
                IF notes # <<>> THEN Or(notes[1].node.text, "")
                ELSE IF documentation # <<>> THEN Or(documentation[1].node.text, "")
                ELSE get_default(element.node, "Notes", "")

\* C18 for the nodes whose Notes child, if any, has child nodes of its own,
\* which the code satisfies
C18_NotesWithChildren ==
    (/\ IsNotesCall
     /\ \A i \in DOMAIN Nested(unit.args[1], unit.args[2].path, "Notes") :
            Nested(unit.args[1], unit.args[2].path, "Notes")[i].node.kids # <<>>)
        => C18_NotesHelper

\* a call of _extract_elements in which a sub-extraction of one of the
\* candidates failed
IsFailedFacetCall ==
    /\ unit # NoCall /\ unit.fn = "_extract_elements"
    /\ unit.args[2] # <<>>
    /\ unit.args[2][1] \in DOMAIN SelectSeq(Iter(unit.args[1]),
                                            LAMBDA x : element_candidate(x.node))

\* the candidate whose sub-extraction failed, and its entry afterwards
FailedCandidate ==
    SelectSeq(Iter(unit.args[1]), LAMBDA x : element_candidate(x.node))[unit.args[2][1]]

FailedEntry == Lookup(unit.ret.self.elements, ExplicitId(FailedCandidate))

\* the element whose sub-extraction failed is recorded and counted
ElementStillRecorded ==
    /\ Has(unit.ret.self.elements, ExplicitId(FailedCandidate))
    /\ unit.ret.self.stats.total_elements =
           Len(SelectSeq(Iter(unit.args[1]), LAMBDA x : element_candidate(x.node)))

\* C20: when the attribute sub-extraction of an element fails, its operation
\* sub-extraction still runs, and the other way round; the facet that failed
\* ends as an empty list, and the element is recorded and counted
C20_SubExtractionIsolation ==
    IsFailedFacetCall =>
        LET tree == unit.args[1]
            facet == unit.args[2][2]
        IN  /\ ElementStillRecorded
            /\ IF facet = "attributes"
               THEN /\ FailedEntry.attributes = <<>>
                    /\ FailedEntry.operations = _extract_operations(tree, FailedCandidate)
               ELSE /\ FailedEntry.operations = <<>>
                    /\ FailedEntry.attributes = _extract_attributes(tree, FailedCandidate)

\* the part of C20 the code satisfies: the element is recorded and counted,
\* and a failure of the operation sub-extraction leaves the attributes
C20_ElementKept ==
    IsFailedFacetCall =>
        /\ ElementStillRecorded
        /\ unit.args[2][2] = "operations" =>
               FailedEntry.attributes = _extract_attributes(unit.args[1], FailedCandidate)

\* a call of _extract_elements in which nothing failed
IsElementsCall ==
    unit # NoCall /\ unit.fn = "_extract_elements" /\ unit.args[2] = <<>>

\* the entries of a list of attributes, operations or parameters made from
\* source node x (the source nodes of one owner have different names)
EntriesOf(list, x) == {i \in DOMAIN list : list[i].name = get(x.node, "Name")}

\* source node x sits in a container node of the given tag
InContainer(tree, x, tag) ==
    Len(x.path) > 1 /\ NodeAt(tree, SubSeq(x.path, 1, Len(x.path) - 1)).tag = tag

\* every Attribute, Operation and Parameter source node below candidate c for
\* which Counted holds has exactly one entry in the list of its owner
OneEntryEach(tree, c, Counted(_, _)) ==
    LET entry == Lookup(unit.ret.self.elements, ExplicitId(c))
        attrs == Nested(tree, c.path, "Attribute")
        ops == Nested(tree, c.path, "Operation")
    IN  /\ \A a \in DOMAIN attrs :
              Counted(attrs[a], "Attributes")
                  => Cardinality(EntriesOf(entry.attributes, attrs[a])) = 1
        /\ \A o \in DOMAIN ops :
              /\ Counted(ops[o], "Operations")
                     => Cardinality(EntriesOf(entry.operations, ops[o])) = 1
              /\ \A i \in EntriesOf(entry.operations, ops[o]) :
                    LET params == Nested(tree, ops[o].path, "Parameter")
                    IN  \A p \in DOMAIN params :
                            Counted(params[p], "Parameters")
                                => Cardinality(EntriesOf(entry.operations[i].parameters,
                                                         params[p])) = 1

\* C26: each Attribute, Operation and Parameter source node nested in an
\* element has exactly one entry in the attributes, operations or parameters
\* list of its owner, inside a container node or not
C26_NoDuplicatedSubEntities ==
    IsElementsCall =>
        LET tree == unit.args[1]
            candidates == SelectSeq(Iter(tree), LAMBDA x : element_candidate(x.node))
        IN  \A c \in DOMAIN candidates :
                OneEntryEach(tree, candidates[c], LAMBDA x, container : TRUE)

\* C26 for the source nodes outside a container node, which the code
\* satisfies
C26_OutsideContainers ==
    IsElementsCall =>
        LET tree == unit.args[1]
            candidates == SelectSeq(Iter(tree), LAMBDA x : element_candidate(x.node))
        IN  \A c \in DOMAIN candidates :
                OneEntryEach(tree, candidates[c],
                             LAMBDA x, container : ~InContainer(tree, x, container))

\* the Attribute node inside the Attributes node of E1 has two entries in
\* the attributes of E1, before the one of the Attribute node beside it
C26_AttributeTwice ==
    /\ IsElementsCall
    /\ Has(unit.ret.self.elements, "E1")
    /\ LET attributes == Lookup(unit.ret.self.elements, "E1").attributes
       IN  /\ Len(attributes) = 3
           /\ attributes[1].name = "a1" /\ attributes[2].name = "a1"
           /\ attributes[3].name = "a2"

\* the image formats a diagram entry may name
ImageFormats == {"png", "jpeg", "bmp", "metafile", "image", "unknown", "file_reference"}

\* has_image, image_data and image_format of a diagram entry agree
ImageFieldsAgree(info) ==
    /\ info.has_image <=> info.image_data # None
    /\ info.has_image <=> info.image_format # None
    /\ info.has_image => info.image_format \in ImageFormats

\* C27: in every diagram entry has_image is true exactly when image_data is
\* not None and exactly when image_format is not None, and then image_format
\* is one of ImageFormats.  Stated for the entries of the analyzer's diagrams
\* and of a returned model, and for the diag_info a direct call of the
\* detector leaves.  It holds, but no state has a diagram entry and no call
\* of the detector sets has_image (C27_DiagramEntry, C27_ImageDetected), so
\* it settles nothing about the claim.
C27_ImageFieldConsistency ==
    /\ \A i \in DOMAIN self.diagrams : ImageFieldsAgree(self.diagrams[i].v)
    /\ HasReturned =>
           \A i \in DOMAIN result.value.diagrams :
               ImageFieldsAgree(result.value.diagrams[i].v)
    /\ IsImageCall => ImageFieldsAgree(unit.ret.info)

\* the diagram extractor has produced an entry
C27_DiagramEntry ==
    \/ self.diagrams # <<>>
    \/ HasReturned /\ result.value.diagrams # <<>>

\* a call of the detector has found an image
C27_ImageDetected == IsImageCall /\ unit.ret.info.has_image

\* C27 for the two loops of the detector alone, had its searches been made
C27_CascadeLoops ==
    \A d \in UnitDiagrams :
        LET tree == Document(<<d>>)
            diagram_elem == [node |-> d, path |-> <<1>>]
        IN  ImageFieldsAgree(image_cascade(tree, diagram_elem,
                                           diagram_info(tree, 1, diagram_elem)))

----------------------------------------------------------------------------
(* Claims about the package hierarchy window *)

IsHierarchyCall == unit # NoCall /\ unit.fn = "show_package_hierarchy"

HierarchyShown == IsHierarchyCall /\ unit.ret.pending = <<>>

\* the number of times package id is in the Treeview or waits to be inserted
Insertions(id) ==
    Cardinality({i \in DOMAIN unit.ret.tree : unit.ret.tree[i].id = id})
    + Cardinality({i \in DOMAIN unit.ret.pending : unit.ret.pending[i].id = id})

\* C22: when show_package_hierarchy has ended, every package whose parent_id
\* is null or names no known package is a top-level item of the Treeview
C22_DanglingParentsAsRoots ==
    HierarchyShown =>
        LET packages == unit.args[1]
        IN  \A i \in DOMAIN packages :
                (~Truthy(packages[i].v.parent_id) \/ ~Has(packages, packages[i].v.parent_id))
                    => \E k \in DOMAIN unit.ret.tree :
                           unit.ret.tree[k].id = packages[i].k /\ unit.ret.tree[k].parent = 0

\* C22 for the packages without a parent_id, which the code satisfies
C22_ParentlessAsRoots ==
    HierarchyShown =>
        LET packages == unit.args[1]
        IN  \A i \in DOMAIN packages :
                ~Truthy(packages[i].v.parent_id)
                    => \E k \in DOMAIN unit.ret.tree :
                           unit.ret.tree[k].id = packages[i].k /\ unit.ret.tree[k].parent = 0

\* C29: show_package_hierarchy terminates and inserts each package at most
\* once, also when parent_ids form a cycle or name the package itself: no
\* package is ever inserted, or waiting to be inserted, more than once, and
\* every call of _add_package_to_tree inserts one, so there are at most as
\* many calls as packages
C29_HierarchyTerminates ==
    IsHierarchyCall =>
        /\ \A i \in DOMAIN unit.args[1] : Insertions(unit.args[1][i].k) <= 1
        /\ Len(unit.ret.tree) + Len(unit.ret.pending) <= Len(unit.args[1])

\* C29's case: the hierarchy of a model with a parent cycle, or with a package
\* that is its own parent, has been shown to its end, sub-packages included
C29_Witness ==
    /\ HierarchyShown
    /\ \E k \in DOMAIN unit.ret.tree : unit.ret.tree[k].parent # 0
    /\ LET packages == unit.args[1]
       IN  \E i, j \in DOMAIN packages :
               /\ packages[i].v.parent_id = packages[j].k
               /\ packages[j].v.parent_id = packages[i].k

====
